---------------------------- MODULE Spec2Model ----------------------------
(***************************************************************************)
(* A model of two scripts of the Reqify toolkit:                           *)
(*   - combine_human_assessments.py, the multi-rater consensus aggregator  *)
(*   - verify_quotes.py, the fuzzy quote verifier                          *)
(* Python strings are TLA+ strings; TLC evaluates Len, \o and SubSeq on    *)
(* them.  Characters outside ASCII are written with the stand-ins below.   *)
(***************************************************************************)
EXTENDS Integers, Sequences, FiniteSets, TLC

\* ------------------------------------------------------------------ bounds
\* longest raw tag cell fed to normalize_cell_value
MaxCellLen == 4

\* most rater files in the voting runs (every file holds one row of one key)
MaxVoters == 4

\* most rater files in the threshold runs
MaxFiles == 6

\* most directory entries in the runs with failing files
MaxEntries == 3

\* most rows of a rater file in the key-ordering runs
MaxRows == 3

\* most pieces a raw text handed to normalize_text is put together from
MaxTextPieces == 3

\* most data rows of the results file handed to verify_quotes_in_transcripts
MaxCsvRows == 2

\* most pieces of a quote, and of a transcript, handed to calculate_fuzzy_score
MaxQuotePieces == 3

MaxTranscriptPieces == 3

\* the batches of one interview sent to the LLM
MaxBatches == 2

\* ------------------------------------------------------ Python str helpers
\* the i-th character of s (1-based), as a one-character string
Ch(s, i) == SubSeq(s, i, i)

\* s[i:] and s[:i] with Python's 0-based i, 0 <= i <= len(s)
From(s, i) == SubSeq(s, i + 1, Len(s))

Upto(s, i) == SubSeq(s, 1, i)

\* printable ASCII characters in code-point order, in runs starting at 32, 35, 93, 97
AsciiFrom32 == " !"

AsciiFrom35 == "#$%&'()*+,-./0123456789:;<=>?@ABCDEFGHIJKLMNOPQRSTUVWXYZ["

AsciiFrom93 == "]^_"

AsciiFrom97 == "abcdefghijklmnopqrstuvwxyz{|}~"

IndexIn(run, c) == CHOOSE i \in 1..Len(run) : Ch(run, i) = c

InRun(run, c) == \E i \in 1..Len(run) : Ch(run, i) = c

\* code point of a printable ASCII character (str comparison is by code point)
Ord(c) ==
    IF InRun(AsciiFrom32, c) THEN 31 + IndexIn(AsciiFrom32, c)
    ELSE IF c = "\"" THEN 34
    ELSE IF InRun(AsciiFrom35, c) THEN 34 + IndexIn(AsciiFrom35, c)
    ELSE IF InRun(AsciiFrom93, c) THEN 92 + IndexIn(AsciiFrom93, c)
    ELSE 96 + IndexIn(AsciiFrom97, c)

\* characters str.strip() removes
IsSpace(c) == c \in {" ", "\t", "\n", "\r", "\f"}

RECURSIVE LStrip(_)
LStrip(s) == IF s # "" /\ IsSpace(Ch(s, 1)) THEN LStrip(From(s, 1)) ELSE s

RECURSIVE RStrip(_)
RStrip(s) == IF s # "" /\ IsSpace(Ch(s, Len(s))) THEN RStrip(Upto(s, Len(s) - 1)) ELSE s

\* str.strip()
Strip(s) == RStrip(LStrip(s))

\* s.startswith(p), s.endswith(p)
StartsWith(s, p) == Len(p) <= Len(s) /\ Upto(s, Len(p)) = p

EndsWith(s, p) == Len(p) <= Len(s) /\ From(s, Len(s) - Len(p)) = p

\* s.find(sep): the 0-based index of the first occurrence, -1 if none
RECURSIVE FindFrom(_, _, _)
FindFrom(s, sep, i) ==
    IF i + Len(sep) > Len(s) THEN -1
    ELSE IF SubSeq(s, i + 1, i + Len(sep)) = sep THEN i
    ELSE FindFrom(s, sep, i + 1)

Contains(s, sep) == FindFrom(s, sep, 0) >= 0

\* s.split(sep): left to right, non-overlapping, empty pieces kept
RECURSIVE Split(_, _)
Split(s, sep) ==
    LET i == FindFrom(s, sep, 0)
    IN  IF i < 0 THEN <<s>>
        ELSE <<Upto(s, i)>> \o Split(From(s, i + Len(sep)), sep)

\* sep.join(parts)
RECURSIVE Join(_, _)
Join(parts, sep) ==
    IF parts = <<>> THEN ""
    ELSE IF Len(parts) = 1 THEN parts[1]
    ELSE parts[1] \o sep \o Join(Tail(parts), sep)

\* s.replace(old, new)
RECURSIVE Replace(_, _, _)
Replace(s, old, new) ==
    LET i == FindFrom(s, old, 0)
    IN  IF i < 0 THEN s
        ELSE Upto(s, i) \o new \o Replace(From(s, i + Len(old)), old, new)

\* a < b for Python strings: lexicographic by code point
RECURSIVE StrLess(_, _)
StrLess(a, b) ==
    IF b = "" THEN FALSE
    ELSE IF a = "" THEN TRUE
    ELSE IF Ch(a, 1) # Ch(b, 1) THEN Ord(Ch(a, 1)) < Ord(Ch(b, 1))
    ELSE StrLess(From(a, 1), From(b, 1))

\* a < b for tuples of strings, as Python compares tuples
RECURSIVE TupleLess(_, _)
TupleLess(a, b) ==
    IF b = <<>> THEN FALSE
    ELSE IF a = <<>> THEN TRUE
    ELSE IF a[1] # b[1] THEN StrLess(a[1], b[1])
    ELSE TupleLess(Tail(a), Tail(b))

\* sorted(xs) for a list of strings (stable insertion; equal strings are equal)
RECURSIVE InsertSorted(_, _)
InsertSorted(x, xs) ==
    IF xs = <<>> THEN <<x>>
    ELSE IF StrLess(x, xs[1]) THEN <<x>> \o xs
    ELSE <<xs[1]>> \o InsertSorted(x, Tail(xs))

RECURSIVE SortedStrs(_)
SortedStrs(xs) ==
    IF xs = <<>> THEN <<>>
    ELSE InsertSorted(xs[Len(xs)], SortedStrs(SubSeq(xs, 1, Len(xs) - 1)))

\* [f(x) for x in xs if p(x)] building blocks
RECURSIVE StripAll(_)
StripAll(xs) == IF xs = <<>> THEN <<>> ELSE <<Strip(xs[1])>> \o StripAll(Tail(xs))

RECURSIVE NonEmpty(_)
NonEmpty(xs) ==
    IF xs = <<>> THEN <<>>
    ELSE IF xs[1] # "" THEN <<xs[1]>> \o NonEmpty(Tail(xs))
    ELSE NonEmpty(Tail(xs))

\* all strings over alphabet of length at most n
RECURSIVE StringsUpTo(_, _)
StringsUpTo(alphabet, n) ==
    IF n = 0 THEN {""}
    ELSE LET shorter == StringsUpTo(alphabet, n - 1)
         IN  shorter \cup {s \o c : s \in shorter, c \in alphabet}

\* ------------------------------------------- combine_human_assessments.py
\* [part.strip() for part in value.split(',') if part.strip()]
CellParts(value) == NonEmpty(StripAll(Split(value, ",")))

\* the parts that are not blank, as they stand between the commas
RECURSIVE NonBlank(_)
NonBlank(xs) ==
    IF xs = <<>> THEN <<>>
    ELSE IF Strip(xs[1]) # "" THEN <<xs[1]>> \o NonBlank(Tail(xs))
    ELSE NonBlank(Tail(xs))

\* the mutant of normalize_cell_value that sorts the parts before trimming them
normalize_cell_value_sort_first(value) ==
    IF value = "" \/ Strip(value) = "" THEN ""
    ELSE Join(StripAll(SortedStrs(NonBlank(Split(value, ",")))), ",")

\* the mutant of normalize_cell_value that keeps every token once
RECURSIVE Distinct(_)
Distinct(xs) ==
    IF xs = <<>> THEN <<>>
    ELSE IF \E i \in 2..Len(xs) : xs[i] = xs[1] THEN Distinct(Tail(xs))
    ELSE <<xs[1]>> \o Distinct(Tail(xs))

normalize_cell_value_unique(value) ==
    IF value = "" \/ Strip(value) = "" THEN ""
    ELSE Join(SortedStrs(Distinct(CellParts(value))), ",")

\* lines 65-74
normalize_cell_value(value) ==
    IF value = "" \/ Strip(value) = "" THEN ""
    ELSE Join(SortedStrs(CellParts(value)), ",")

\* ---- generic list / set / dict helpers
SeqToSet(xs) == {xs[i] : i \in DOMAIN xs}

\* list.index(x), 1-based; x must occur
IndexOf(xs, x) == CHOOSE i \in DOMAIN xs : xs[i] = x /\ \A j \in 1..(i - 1) : xs[j] # x

\* the empty dict, and d[k] = v
EmptyMap == [x \in {} |-> ""]

Put(d, k, v) == [x \in (DOMAIN d) \cup {k} |-> IF x = k THEN v ELSE d[x]]

\* every enumeration of a finite set (iteration order of a Python set is unspecified)
RECURSIVE Orderings(_)
Orderings(S) ==
    IF S = {} THEN {<<>>}
    ELSE UNION {{<<x>> \o t : t \in Orderings(S \ {x})} : x \in S}

\* math.ceil(a / b) for positive integers
CeilDiv(a, b) == (a + b - 1) \div b

\* the mutant of KeyCols that never keys by Iteration
KeyColsWithoutIteration(is_meta) == <<"Interview ID", "Scenario">>

\* ---- configuration (lines 22-26 and 136-139)
KeyCols(is_meta) ==
    IF is_meta THEN <<"Interview ID", "Scenario", "Iteration">>
    ELSE <<"Interview ID", "Scenario">>

\* stand-in for the byte order mark U+FEFF
BOM == "^"

RECURSIVE LStripChar(_, _)
LStripChar(s, c) == IF s # "" /\ Ch(s, 1) = c THEN LStripChar(From(s, 1), c) ELSE s

\* line 30: infile.readline() on a file written with the separator file.sep
FirstLine(file) == Join(file.header, file.sep)

\* line 35: delimiter = ';' if ';' in first_line else ','
Delimiter(first_line) == IF Contains(first_line, ";") THEN ";" ELSE ","

\* lines 38-40: header[0].lstrip(BOM); [h.strip() for h in header]
CleanHeader(header) ==
    IF header = <<>> THEN <<>>
    ELSE <<Strip(LStripChar(header[1], BOM))>> \o StripAll(Tail(header))

\* line 49: {clean_header[i]: value.strip() for i, value in enumerate(row)},
\* for a row exactly as long as the header (a later duplicate header wins)
RowDict(clean_header, row) ==
    [h \in SeqToSet(clean_header) |->
        LET last == CHOOSE i \in DOMAIN clean_header :
                        /\ clean_header[i] = h
                        /\ \A j \in (i + 1)..Len(clean_header) : clean_header[j] # h
        IN  Strip(row[last])]

\* lines 52-55: tuple(row_dict[col] for col in key_cols_names)
RowKey(row_dict, key_cols) == [i \in DOMAIN key_cols |-> row_dict[key_cols[i]]]

\* the mutant of LoadRows that skips a row longer than the header as it skips a
\* shorter one
RECURSIVE LoadRowsOfHeaderLength(_, _, _, _)
LoadRowsOfHeaderLength(clean_header, rows, key_cols, data_map) ==
    IF rows = <<>> THEN [error |-> "", data_map |-> data_map]
    ELSE LET row == Head(rows)
         IN  IF Len(row) # Len(clean_header)
             THEN LoadRowsOfHeaderLength(clean_header, Tail(rows), key_cols, data_map)
             ELSE LET row_dict == RowDict(clean_header, row)
                  IN  LoadRowsOfHeaderLength(clean_header, Tail(rows), key_cols,
                                             Put(data_map, RowKey(row_dict, key_cols),
                                                 row_dict))

\* lines 45-57: the row loop; a row longer than the header raises IndexError
RECURSIVE LoadRows(_, _, _, _)
LoadRows(clean_header, rows, key_cols, data_map) ==
    IF rows = <<>> THEN [error |-> "", data_map |-> data_map]
    ELSE LET row == Head(rows)
         IN  IF Len(row) < Len(clean_header)
             THEN LoadRows(clean_header, Tail(rows), key_cols, data_map)
             ELSE IF Len(row) > Len(clean_header)
             THEN [error |-> "IndexError", data_map |-> data_map]
             ELSE LET row_dict == RowDict(clean_header, row)
                  IN  LoadRows(clean_header, Tail(rows), key_cols,
                               Put(data_map, RowKey(row_dict, key_cols), row_dict))

\* what one call returns: uncaught is an exception the except clause of line 59
\* does not list; otherwise (data_map, clean_header) or ({}, [])
Loaded(data_map, header_list) ==
    [uncaught |-> FALSE, data_map |-> data_map, header_list |-> header_list]

\* load_and_clean_csv(file_path, target_filename) on a file of the results tree:
\*   kind "denied":   open() raises PermissionError, not listed on line 59
\*   kind "vanished": open() raises FileNotFoundError
\*   kind "empty":    readline() returns ''
\*   kind "data":     header and rows as csv.reader yields them
load_and_clean_csv(file, is_meta) ==
    LET key_cols     == KeyCols(is_meta)
        clean_header == CleanHeader(file.header)
        loaded       == LoadRows(clean_header, file.rows, key_cols, EmptyMap)
    IN  IF file.kind = "denied"
        THEN [uncaught |-> TRUE, data_map |-> EmptyMap, header_list |-> <<>>]
        ELSE IF file.kind \in {"vanished", "empty"} THEN Loaded(EmptyMap, <<>>)
        ELSE IF \E i \in DOMAIN key_cols : key_cols[i] \notin SeqToSet(clean_header)
        THEN Loaded(EmptyMap, <<>>)   \* ValueError from clean_header.index
        ELSE IF loaded.error # "" THEN Loaded(EmptyMap, <<>>)
        ELSE Loaded(loaded.data_map, clean_header)

\* the mutant of AgreementThreshold that asks for a simple majority
AgreementThresholdHalf(num_files) == CeilDiv(num_files, 2)

\* line 126
AgreementThreshold(num_files) == CeilDiv(num_files * 2, 3)

\* the mutant of SortKey that sorts by Interview ID first
SortKeyInterviewFirst(key, is_meta) ==
    IF is_meta THEN <<key[1], key[2], key[3]>> ELSE <<key[1], key[2]>>

\* lines 167-172: the sort key of a composite key
SortKey(key, is_meta) ==
    IF is_meta THEN <<key[2], key[1], key[3]>> ELSE <<key[2], key[1]>>

\* line 174: sorted(list(all_keys), key=sort_key_func)
RECURSIVE SortedKeys(_, _)
SortedKeys(keys, is_meta) ==
    IF keys = {} THEN <<>>
    ELSE LET least == CHOOSE k \in keys :
                          \A o \in keys :
                              ~TupleLess(SortKey(o, is_meta), SortKey(k, is_meta))
         IN  <<least>> \o SortedKeys(keys \ {least}, is_meta)

\* the mutant of FinalHeaderOrders that keeps the master list only
FinalHeaderOrdersMasterOnly(master, headers_set, key_cols) == {master}

\* lines 142-155: the orders final_ordered_headers may take
FinalHeaderOrders(master, headers_set, key_cols) ==
    IF master = <<>>
    THEN LET keys_present == {i \in DOMAIN key_cols : key_cols[i] \in headers_set}
             others       == headers_set \ SeqToSet(key_cols)
         IN  {[i \in 1..Cardinality(headers_set) |->
                 IF i <= Cardinality(keys_present)
                 THEN key_cols[CHOOSE k \in keys_present :
                          Cardinality({j \in keys_present : j < k}) = i - 1]
                 ELSE CHOOSE h \in others :
                          Cardinality({o \in others : StrLess(o, h)})
                              = i - Cardinality(keys_present) - 1]}
    ELSE {master \o extra : extra \in Orderings(headers_set \ SeqToSet(master))}

\* the mutant of CellValues in which a rater without a row for the key casts
\* no vote
RECURSIVE CellValuesOfRowsPresent(_, _, _)
CellValuesOfRowsPresent(data, key, header) ==
    IF data = <<>> THEN <<>>
    ELSE LET researcher_data == Head(data)
         IN  (IF key \in DOMAIN researcher_data
              THEN <<normalize_cell_value(
                         IF header \in DOMAIN researcher_data[key]
                         THEN researcher_data[key][header] ELSE "")>>
              ELSE <<>>)
             \o CellValuesOfRowsPresent(Tail(data), key, header)

\* lines 187-192: the raters' normalized values of one cell, in file order
RECURSIVE CellValues(_, _, _)
CellValues(data, key, header) ==
    IF data = <<>> THEN <<>>
    ELSE LET researcher_data == Head(data)
         IN  <<normalize_cell_value(
                   IF key \in DOMAIN researcher_data
                      /\ header \in DOMAIN researcher_data[key]
                   THEN researcher_data[key][header]
                   ELSE "")>>
             \o CellValues(Tail(data), key, header)

\* lines 198-201: Counter(cell_values).most_common(1)[0]; among equally
\* frequent values the first one counted
CountOf(cell_values, v) == Cardinality({i \in DOMAIN cell_values : cell_values[i] = v})

\* the mutant of MostCommon that takes the first value counted, whatever its count
MostCommonFirstSeen(cell_values) ==
    [value |-> cell_values[1], count |-> CountOf(cell_values, cell_values[1])]

MostCommon(cell_values) ==
    LET best == CHOOSE i \in DOMAIN cell_values :
                    /\ \A j \in DOMAIN cell_values :
                           CountOf(cell_values, cell_values[j])
                               <= CountOf(cell_values, cell_values[i])
                    /\ \A j \in 1..(i - 1) :
                           CountOf(cell_values, cell_values[j])
                               < CountOf(cell_values, cell_values[i])
    IN  [value |-> cell_values[best], count |-> CountOf(cell_values, cell_values[best])]

\* set(val.split(',')) if val else set()
TokenSet(val) == IF val = "" THEN {} ELSE SeqToSet(Split(val, ","))

\* lines 194-196
RECURSIVE TotalEntries(_)
TotalEntries(cell_values) ==
    IF cell_values = <<>> THEN 0
    ELSE (IF Head(cell_values) = "" THEN 0 ELSE Len(Split(Head(cell_values), ",")))
         + TotalEntries(Tail(cell_values))

\* the mutant of RemovedEntries that counts every token of every rater
RECURSIVE RemovedEntriesAllTokens(_, _)
RemovedEntriesAllTokens(cell_values, consensus_set) ==
    IF cell_values = <<>> THEN 0
    ELSE Cardinality(TokenSet(Head(cell_values)))
         + RemovedEntriesAllTokens(Tail(cell_values), consensus_set)

\* lines 205-209 and 213-215
RECURSIVE RemovedEntries(_, _)
RemovedEntries(cell_values, consensus_set) ==
    IF cell_values = <<>> THEN 0
    ELSE Cardinality(TokenSet(Head(cell_values)) \ consensus_set)
         + RemovedEntries(Tail(cell_values), consensus_set)

\* the index of the first non-key header at or after position i
RECURSIVE NextValueColumn(_, _, _)
NextValueColumn(headers, key_cols, i) ==
    IF i > Len(headers) THEN i
    ELSE IF headers[i] \in SeqToSet(key_cols) THEN NextValueColumn(headers, key_cols, i + 1)
    ELSE i

\* --------------------------------------------------------- verify_quotes.py
\* line 31
SIMILARITY_THRESHOLD == 80

\* stand-ins for the characters outside ASCII that normalize_text names
LDQUO == "{"    \* U+201C left double quotation mark

RDQUO == "}"    \* U+201D right double quotation mark

LSQUO == "["    \* U+2018 left single quotation mark

RSQUO == "]"    \* U+2019 right single quotation mark

LAQUO == "("    \* U+00AB left-pointing guillemet

RAQUO == ")"    \* U+00BB right-pointing guillemet

NBSP == "~"     \* U+00A0 no-break space

\* ---- html.unescape, with the table of named references cut down to amp and
\* lt (with and without the semicolon, as in html.entities.html5)
EntityTable == [name \in {"amp;", "amp", "lt;", "lt"} |->
                   IF name \in {"amp;", "amp"} THEN "&" ELSE "<"]

\* the characters the pattern [^\t\n\f <&#;] excludes from a reference name
EndsName(c) == c \in {"\t", "\n", "\f", " ", "<", "&", "#", ";"}

\* the length of the name run at the head of s, at most 32 characters
RECURSIVE NameRun(_, _)
NameRun(s, n) ==
    IF n < 32 /\ n < Len(s) /\ ~EndsName(Ch(s, n + 1)) THEN NameRun(s, n + 1) ELSE n

\* the longest proper prefix of name, of at least 2 characters, the table holds;
\* 0 if none (for x in range(len(s)-1, 1, -1))
RECURSIVE LongestEntityPrefix(_, _)
LongestEntityPrefix(name, x) ==
    IF x <= 1 THEN 0
    ELSE IF Upto(name, x) \in DOMAIN EntityTable THEN x
    ELSE LongestEntityPrefix(name, x - 1)

\* _charref.sub(_replace_charref, s): left to right, replacements not rescanned
RECURSIVE Unescape(_)
Unescape(s) ==
    LET amp == FindFrom(s, "&", 0)
    IN  IF amp < 0 THEN s
        ELSE LET rest == From(s, amp + 1)
                 run  == NameRun(rest, 0)
                 semi == IF run < Len(rest) /\ Ch(rest, run + 1) = ";" THEN 1 ELSE 0
                 name == Upto(rest, run + semi)
                 pre  == LongestEntityPrefix(name, Len(name) - 1)
             IN  IF run = 0
                 THEN Upto(s, amp + 1) \o Unescape(rest)
                 ELSE IF name \in DOMAIN EntityTable
                 THEN Upto(s, amp) \o EntityTable[name]
                      \o Unescape(From(rest, Len(name)))
                 ELSE IF pre > 0
                 THEN Upto(s, amp) \o EntityTable[Upto(name, pre)] \o From(name, pre)
                      \o Unescape(From(rest, Len(name)))
                 ELSE Upto(s, amp + 1) \o name \o Unescape(From(rest, Len(name)))

\* line 101
QuotePairs == << <<"\"", "\"">>, <<"'", "'">>, <<LDQUO, RDQUO>>, <<LSQUO, RSQUO>>,
                <<LAQUO, RAQUO>> >>

\* s[1:-1]
Inner(s) == SubSeq(s, 2, Len(s) - 1)

\* lines 105-106: one run of the for loop over the pairs, from pair i on
RECURSIVE StripPairsFrom(_, _, _)
StripPairsFrom(s, changed, i) ==
    IF i > Len(QuotePairs) THEN [s |-> s, changed |-> changed]
    ELSE IF StartsWith(s, QuotePairs[i][1]) /\ EndsWith(s, QuotePairs[i][2])
    THEN StripPairsFrom(Strip(Inner(s)), TRUE, i + 1)
    ELSE StripPairsFrom(s, changed, i + 1)

\* lines 102-106: while changed and len(s) >= 2
RECURSIVE StripQuoteLayers(_)
StripQuoteLayers(s) ==
    IF Len(s) < 2 THEN s
    ELSE LET pass == StripPairsFrom(s, FALSE, 1)
         IN  IF pass.changed THEN StripQuoteLayers(pass.s) ELSE pass.s

\* lines 102-106: the strings line 106 strips a layer from, in the order of
\* the removals; one run of the for loop over the pairs, from pair i on
RECURSIVE RemovalsFrom(_, _)
RemovalsFrom(s, i) ==
    IF i > Len(QuotePairs) THEN <<>>
    ELSE IF StartsWith(s, QuotePairs[i][1]) /\ EndsWith(s, QuotePairs[i][2])
    THEN <<s>> \o RemovalsFrom(Strip(Inner(s)), i + 1)
    ELSE RemovalsFrom(s, i + 1)

\* the same for the whole while loop
RECURSIVE Removals(_)
Removals(s) ==
    IF Len(s) < 2 THEN <<>>
    ELSE LET pass == StripPairsFrom(s, FALSE, 1)
         IN  RemovalsFrom(s, 1) \o (IF pass.changed THEN Removals(pass.s) ELSE <<>>)

\* line 100
CleanWhitespace(s) == Strip(Replace(Replace(Replace(s, "\r", ""), "\n", " "), NBSP, " "))

\* line 107
StraightQuotes(s) ==
    Replace(Replace(Replace(Replace(s, RDQUO, "\""), LDQUO, "\""), RSQUO, "'"), LSQUO, "'")

\* lines 98-108
normalize_text(cell) ==
    IF cell = "" THEN ""
    ELSE StraightQuotes(StripQuoteLayers(CleanWhitespace(Unescape(cell))))

\* ---- thefuzz.fuzz
Max(a, b) == IF a >= b THEN a ELSE b

\* one row of the longest-common-subsequence table: row[j + 1] is the length
\* for the characters of a read so far and the first j characters of b
RECURSIVE LcsRow(_, _, _, _)
LcsRow(c, b, prev, cur) ==
    LET j == Len(cur)
    IN  IF j > Len(b) THEN cur
        ELSE LcsRow(c, b, prev,
                    Append(cur, IF Ch(b, j) = c THEN prev[j] + 1
                                ELSE Max(prev[j + 1], cur[j])))

\* the table row by row; a common subsequence is no longer than b, so the
\* length is settled as soon as a row ends with Len(b)
RECURSIVE LcsTable(_, _, _, _)
LcsTable(a, b, i, prev) ==
    IF i > Len(a) \/ prev[Len(b) + 1] = Len(b) THEN prev[Len(b) + 1]
    ELSE LcsTable(a, b, i + 1, LcsRow(Ch(a, i), b, prev, <<0>>))

LcsLen(a, b) == LcsTable(a, b, 1, [j \in 1..(Len(b) + 1) |-> 0])

\* int(round(p / q)) for p >= 0, q > 0: round half to even
RoundDiv(p, q) ==
    LET lo == p \div q
        r2 == 2 * (p % q)
    IN  IF r2 < q THEN lo
        ELSE IF r2 > q THEN lo + 1
        ELSE IF lo % 2 = 0 THEN lo ELSE lo + 1

\* fuzz.ratio(s1, s2): the rounded normalized indel similarity,
\* 100 * 2 * lcs / (len(s1) + len(s2)); 100 for two empty strings
Ratio(s1, s2) ==
    IF Len(s1) + Len(s2) = 0 THEN 100
    ELSE RoundDiv(200 * LcsLen(s1, s2), Len(s1) + Len(s2))

\* the parts of the longer string fuzz.partial_ratio aligns the shorter one
\* with: every window of the shorter string's length, and the shorter ones
\* that overhang either end
AlignedWindows(needle, hay) ==
    {SubSeq(hay, Max(1, e - Len(needle) + 1), IF e > Len(hay) THEN Len(hay) ELSE e) :
         e \in 1..(Len(hay) + Len(needle) - 1)}

\* fuzz.partial_ratio(s1, s2)
PartialRatio(s1, s2) ==
    LET needle == IF Len(s1) <= Len(s2) THEN s1 ELSE s2
        hay    == IF Len(s1) <= Len(s2) THEN s2 ELSE s1
    IN  IF s1 = "" /\ s2 = "" THEN 100
        ELSE IF needle = "" THEN 0
        ELSE LET scores == {Ratio(needle, w) : w \in AlignedWindows(needle, hay)}
             IN  CHOOSE m \in scores : \A x \in scores : x <= m

\* the mutant of SlideWindow that keeps the last of the best windows
RECURSIVE SlideWindowLastBest(_, _, _, _, _)
SlideWindowLastBest(query, text, i, best_score, best_index) ==
    IF i > Len(text) - Len(query)
    THEN [score |-> best_score, start |-> best_index, end |-> best_index + Len(query)]
    ELSE LET score == Ratio(query, SubSeq(text, i + 1, i + Len(query)))
         IN  IF score >= best_score
             THEN SlideWindowLastBest(query, text, i + 1, score, i)
             ELSE SlideWindowLastBest(query, text, i + 1, best_score, best_index)

\* lines 44-56: the sliding window from position i on, keeping the first best
RECURSIVE SlideWindow(_, _, _, _, _)
SlideWindow(query, text, i, best_score, best_index) ==
    IF i > Len(text) - Len(query)
    THEN [score |-> best_score, start |-> best_index, end |-> best_index + Len(query)]
    ELSE LET score == Ratio(query, SubSeq(text, i + 1, i + Len(query)))
         IN  IF score > best_score
             THEN SlideWindow(query, text, i + 1, score, i)
             ELSE SlideWindow(query, text, i + 1, best_score, best_index)

\* lines 33-56
find_best_substring_match(query, text) ==
    IF query = "" \/ text = "" \/ Len(query) > Len(text)
    THEN [score |-> 0, start |-> -1, end |-> -1]
    ELSE SlideWindow(query, text, 0, 0, -1)

\* line 68: [p.strip() for p in quote.split("...") if p.strip()]
QuoteParts(q) == NonEmpty(StripAll(Split(q, "...")))

\* the mutant of SearchArea that searches the whole transcript for every part
SearchAreaWhole(text, start_index) == text

\* line 82: transcript[search_start_index:]
SearchArea(text, start_index) == From(text, start_index)

\* sum(part_scores)
RECURSIVE Sum(_)
Sum(xs) == IF xs = <<>> THEN 0 ELSE Head(xs) + Sum(Tail(xs))

\* lines 81-95: the loop over the parts from part i on
RECURSIVE SequentialScore(_, _, _, _, _)
SequentialScore(quote_parts, text, i, start_index, scores) ==
    IF i > Len(quote_parts) THEN Sum(scores) \div Len(scores)
    ELSE LET found == find_best_substring_match(quote_parts[i],
                                                SearchArea(text, start_index))
         IN  IF found.score < SIMILARITY_THRESHOLD THEN found.score
             ELSE SequentialScore(quote_parts, text, i + 1, start_index + found.end,
                                  Append(scores, found.score))

\* lines 58-95
calculate_fuzzy_score(quote_text, transcript_text) ==
    IF ~Contains(quote_text, "...") THEN PartialRatio(quote_text, transcript_text)
    ELSE LET quote_parts == QuoteParts(quote_text)
         IN  IF quote_parts = <<>> THEN 0
             ELSE IF Len(quote_parts) = 1
             THEN PartialRatio(quote_parts[1], transcript_text)
             ELSE SequentialScore(quote_parts, transcript_text, 1, 0, <<>>)

\* JSON data as json.load returns it: [type |-> "str", s |-> text],
\* [type |-> "list", items |-> <<data, ...>>] (a dict is the list of its
\* values), [type |-> "other"] (a number, true, false, null)
JsonStr(text) == [type |-> "str", s |-> text]

JsonList(items) == [type |-> "list", items |-> items]

JsonOther == [type |-> "other"]

\* lines 110-117
RECURSIVE extract_text_from_json(_)
RECURSIVE TextParts(_)
TextParts(items) ==
    IF items = <<>> THEN <<>>
    ELSE <<extract_text_from_json(Head(items))>> \o TextParts(Tail(items))

extract_text_from_json(data) ==
    IF data.type = "str" THEN data.s
    ELSE IF data.type = "list" THEN Join(TextParts(data.items), " ")
    ELSE ""

\* line 119: columns[i] for i < 26 (0-based)
ColumnLetters == "ABCDEFGHIJKLMNOPQRSTUVWXYZ"

ColumnName(i) == Ch(ColumnLetters, i + 1)

\* lines 121-124
RECURSIVE QuoteIndicesFrom(_, _)
QuoteIndicesFrom(i, header_len) ==
    IF i < header_len THEN <<i>> \o QuoteIndicesFrom(i + 2, header_len) ELSE <<>>

compute_quote_indices(start_letter, header_len) ==
    QuoteIndicesFrom(FindFrom(ColumnLetters, start_letter, 0) + 1, header_len)

\* line 142: max(len(r) for r in reader)
MaxRowLen(rows) ==
    CHOOSE n \in {Len(rows[i]) : i \in DOMAIN rows} : \A i \in DOMAIN rows : Len(rows[i]) <= n

\* an entry of failed_quotes, the tuple (identifier, row_idx, column, score,
\* text): score is "N/A" where numeric is FALSE, text is "<error>: <quote>"
\* where error is not empty
FailedEntry(identifier, row_idx, q_idx, numeric, score, error, quote_raw) ==
    [identifier |-> identifier, row_idx |-> row_idx, column |-> ColumnName(q_idx),
     numeric |-> numeric, score |-> score, error |-> error, quote |-> quote_raw]

\* the mutant of ErrorEntries that reports every quote column, blank or not
RECURSIVE ErrorEntriesForEveryCell(_, _, _, _, _)
ErrorEntriesForEveryCell(identifier, row_idx, row, quote_indices, error) ==
    IF quote_indices = <<>> THEN <<>>
    ELSE LET q_idx == Head(quote_indices)
             rest  == ErrorEntriesForEveryCell(identifier, row_idx, row,
                                               Tail(quote_indices), error)
         IN  IF q_idx < Len(row)
             THEN <<FailedEntry(identifier, row_idx, q_idx, FALSE, 0, error,
                                row[q_idx + 1])>> \o rest
             ELSE rest

\* lines 155-157 and 166-168: one entry for every quote cell that is not blank
RECURSIVE ErrorEntries(_, _, _, _, _)
ErrorEntries(identifier, row_idx, row, quote_indices, error) ==
    IF quote_indices = <<>> THEN <<>>
    ELSE LET q_idx == Head(quote_indices)
             rest  == ErrorEntries(identifier, row_idx, row, Tail(quote_indices), error)
         IN  IF q_idx < Len(row) /\ Strip(row[q_idx + 1]) # ""
             THEN <<FailedEntry(identifier, row_idx, q_idx, FALSE, 0, error,
                                row[q_idx + 1])>> \o rest
             ELSE rest

\* the mutant of BelowThreshold that also fails a score equal to the threshold
NotAboveThreshold(score) == score <= SIMILARITY_THRESHOLD

\* line 183
BelowThreshold(score) == score < SIMILARITY_THRESHOLD

\* lines 172-181: the quote cells of a row that get a score, as
\* [q_idx, quote_raw, score]
RECURSIVE ScoredCells(_, _, _)
ScoredCells(row, quote_indices, normalized_transcript) ==
    IF quote_indices = <<>> THEN <<>>
    ELSE LET q_idx == Head(quote_indices)
             rest  == ScoredCells(row, Tail(quote_indices), normalized_transcript)
         IN  IF q_idx >= Len(row) THEN rest
             ELSE LET quote_raw        == row[q_idx + 1]
                      normalized_quote == normalize_text(quote_raw)
                  IN  IF quote_raw = "" \/ Strip(quote_raw) = "" THEN rest
                      ELSE IF normalized_quote = "" THEN rest
                      ELSE <<[q_idx |-> q_idx, quote_raw |-> quote_raw,
                              score |-> calculate_fuzzy_score(normalized_quote,
                                                              normalized_transcript)]>>
                           \o rest

\* lines 183-184
RECURSIVE ScoreEntries(_, _, _)
ScoreEntries(identifier, row_idx, cells) ==
    IF cells = <<>> THEN <<>>
    ELSE (IF BelowThreshold(Head(cells).score)
          THEN <<FailedEntry(identifier, row_idx, Head(cells).q_idx, TRUE,
                             Head(cells).score, "", Head(cells).quote_raw)>>
          ELSE <<>>)
         \o ScoreEntries(identifier, row_idx, Tail(cells))

\* ------------------------------------------------------------------ state
VARIABLES
    \* --- create_combined_analysis: its inputs
    dir_exists,             \* os.path.isdir(RESULTS_DIR)
    dir_entries,            \* os.listdir(RESULTS_DIR), with each directory's target file
    is_meta_human,          \* 'meta_human' in target_filename
    \* --- create_combined_analysis: its locals
    pc,                     \* position in the function
    researcher_files,       \* indexes into dir_entries of the files found
    num_researchers,
    load_i,                 \* position of the loading loop in researcher_files
    all_data,               \* data_map of each file loaded so far, in file order
    all_headers_set,
    all_keys,
    master_header_list,
    agreement_threshold,
    final_ordered_headers,
    sorted_keys,
    key_i,                  \* position of the row loop in sorted_keys
    header_i,               \* position of the column loop; 0 before the row starts
    new_row,
    combined_rows,
    mismatches_count,
    removed_entries_count,
    total_entries_count,
    \* --- create_combined_analysis: its effects
    output_file,            \* the CSV written: <<>> or <<[fieldnames, rows]>>
    output_writes,          \* how many times the output file was written
    report,                 \* the last message printed
    \* --- normalize_cell_value harness
    cell_pc,      \* "idle", "in", "once", "twice"
    cell_value,   \* the raw cell handed to normalize_cell_value
    cell_once,    \* normalize_cell_value(cell_value)
    cell_twice,   \* normalize_cell_value(cell_once)
    \* --- normalize_text harness
    text_pc,      \* "idle", "in", "once", "twice"
    text_cell,    \* the raw text handed to normalize_text
    text_once,    \* normalize_text(text_cell)
    text_twice,   \* normalize_text(text_once)
    \* --- calculate_fuzzy_score
    fz_pc,                \* "idle", "start", "parts", "done"
    quote,
    transcript,
    parts,
    part_i,               \* position of the loop over parts
    part_scores,
    search_start_index,
    match_windows,        \* history: the window matched for each passing part,
                          \* as indexes into the whole transcript
    fz_result,            \* the value returned
    \* --- verify_quotes_in_transcripts: its inputs
    csv_exists,           \* os.path.exists(csv_file_path)
    csv_rows,             \* list(csv.reader(file, delimiter=";"))
    transcripts_on_disk,  \* identifier -> the file <identifier>.json
    req_start_letter,
    \* --- verify_quotes_in_transcripts: its locals
    vq_pc,                \* "idle", "start", "rows", "done"
    reader_i,             \* position of the row loop in csv_rows
    failed_quotes,
    scored,               \* history: every call of calculate_fuzzy_score
    \* --- verify_human.py, VerificationApp: its environment
    files_present,        \* the modes whose analysis and results files exist
    state_file,           \* human_verification_state.json: <<>> or <<its content>>
    \* --- VerificationApp: its attributes
    mode,                 \* self.mode: "none" for None
    screen,               \* the window shown: "welcome", or the mode the main
                          \* window was built for
    state,
    mode_state,
    req_columns,
    current_req_index,    \* as in the source, from 0
    match_widgets,        \* location -> the value of its StringVar
    current_locations,
    selected_match_index, \* -1 for None
    decisions,            \* history: <<mode shown, requirement, location>> -> the
                          \* decision the user set last
    \* --- llm-call_match-requirements.py: its environment
    deployment_name,      \* os.getenv("deployment"): "" when not set
    batches,              \* the batches of one interview, each a list of locations
    \* --- process_results_file and get_llm_analysis: their locals and effects
    llm_pc,               \* "idle", "batch", "attempt", "returned", "finished"
    batch_i,              \* position of the loop over the batches
    attempt,              \* the loop variable of get_llm_analysis
    response,             \* what the last call gave: an exception or a content
    api_calls,            \* history: per call of this batch, whether an array was parsed
    analysis_result,
    analysis_csv,         \* the locations written to the analysis CSV
    csv_writes            \* how many times the analysis CSV was rewritten

inputVars == <<dir_exists, dir_entries, is_meta_human>>

loadVars == <<load_i, all_data, all_headers_set, all_keys, master_header_list>>

rowVars == <<key_i, header_i, new_row, combined_rows>>

countVars == <<mismatches_count, removed_entries_count, total_entries_count>>

outVars == <<output_file, output_writes>>

aggVars == <<inputVars, pc, researcher_files, num_researchers, loadVars,
             agreement_threshold, final_ordered_headers, sorted_keys, rowVars,
             countVars, outVars, report>>

cellVars == <<cell_pc, cell_value, cell_once, cell_twice>>

textVars == <<text_pc, text_cell, text_once, text_twice>>

fuzzyVars == <<fz_pc, quote, transcript, parts, part_i, part_scores,
               search_start_index, match_windows, fz_result>>

verifyVars == <<csv_exists, csv_rows, transcripts_on_disk, req_start_letter, vq_pc,
                reader_i, failed_quotes, scored>>

reviewVars == <<files_present, state_file, mode, screen, state, mode_state, req_columns,
                current_req_index, match_widgets, current_locations,
                selected_match_index, decisions>>

llmVars == <<deployment_name, batches, llm_pc, batch_i, attempt, response, api_calls,
             analysis_result, analysis_csv, csv_writes>>

toolVars == <<reviewVars, llmVars>>

vars == <<aggVars, cellVars, textVars, fuzzyVars, verifyVars, toolVars>>

\* everything but the aggregator's variables
nonAggVars == <<cellVars, textVars, fuzzyVars, verifyVars, toolVars>>

\* a component that is not running
AggIdle ==
    /\ dir_exists = FALSE /\ dir_entries = <<>> /\ is_meta_human = FALSE
    /\ pc = "idle" /\ researcher_files = <<>> /\ num_researchers = 0
    /\ load_i = 0 /\ all_data = <<>> /\ all_headers_set = {} /\ all_keys = {}
    /\ master_header_list = <<>> /\ agreement_threshold = 0
    /\ final_ordered_headers = <<>> /\ sorted_keys = <<>>
    /\ key_i = 0 /\ header_i = 0 /\ new_row = EmptyMap /\ combined_rows = <<>>
    /\ mismatches_count = 0 /\ removed_entries_count = 0 /\ total_entries_count = 0
    /\ output_file = <<>> /\ output_writes = 0
    /\ report = ""

CellIdle ==
    /\ cell_pc = "idle" /\ cell_value = "" /\ cell_once = "" /\ cell_twice = ""

TextIdle ==
    /\ text_pc = "idle" /\ text_cell = "" /\ text_once = "" /\ text_twice = ""

FuzzyIdle ==
    /\ fz_pc = "idle" /\ quote = "" /\ transcript = "" /\ parts = <<>>
    /\ part_i = 0 /\ part_scores = <<>> /\ search_start_index = 0
    /\ match_windows = <<>> /\ fz_result = -1

VerifyIdle ==
    /\ csv_exists = FALSE /\ csv_rows = <<>> /\ transcripts_on_disk = <<>>
    /\ req_start_letter = "" /\ vq_pc = "idle" /\ reader_i = 0
    /\ failed_quotes = <<>> /\ scored = <<>>

ReviewIdle ==
    /\ files_present = {} /\ state_file = <<>> /\ mode = "none" /\ screen = "idle"
    /\ state = EmptyMap /\ mode_state = EmptyMap /\ req_columns = <<>>
    /\ current_req_index = 0 /\ match_widgets = EmptyMap /\ current_locations = <<>>
    /\ selected_match_index = -1 /\ decisions = EmptyMap

LlmIdle ==
    /\ deployment_name = "" /\ batches = <<>> /\ llm_pc = "idle" /\ batch_i = 0
    /\ attempt = 0 /\ response = [raised |-> FALSE, content |-> ""]
    /\ api_calls = <<>> /\ analysis_result = <<>>
    /\ analysis_csv = <<>> /\ csv_writes = 0

ToolsIdle == ReviewIdle /\ LlmIdle

\* --------------------------------------------- create_combined_analysis
\* lines 86-88
DirMissing ==
    /\ pc = "start"
    /\ ~dir_exists
    /\ report' = "dir_not_found"
    /\ pc' = "returned"
    /\ UNCHANGED <<inputVars, researcher_files, num_researchers, loadVars,
                   agreement_threshold, final_ordered_headers, sorted_keys, rowVars,
                   countVars, outVars, nonAggVars>>

\* lines 90-97
FoundFiles(entries) ==
    LET found == {i \in DOMAIN entries : entries[i].prefixed /\ entries[i].kind # "nofile"}
    IN  [n \in 1..Cardinality(found) |->
            CHOOSE i \in found : Cardinality({j \in found : j < i}) = n - 1]

FindFiles ==
    /\ pc = "start"
    /\ dir_exists
    /\ researcher_files' = FoundFiles(dir_entries)
    /\ num_researchers' = Len(FoundFiles(dir_entries))
    /\ pc' = "validate"
    /\ UNCHANGED <<inputVars, loadVars, agreement_threshold, final_ordered_headers,
                   sorted_keys, rowVars, countVars, outVars, report, nonAggVars>>

\* lines 98-101
TooFewFiles ==
    /\ pc = "validate"
    /\ num_researchers < 3
    /\ report' = "too_few_files"
    /\ pc' = "returned"
    /\ UNCHANGED <<inputVars, researcher_files, num_researchers, loadVars,
                   agreement_threshold, final_ordered_headers, sorted_keys, rowVars,
                   countVars, outVars, nonAggVars>>

\* lines 103-112
EnoughFiles ==
    /\ pc = "validate"
    /\ num_researchers >= 3
    /\ report' = "found_files"
    /\ load_i' = 1
    /\ all_data' = <<>>
    /\ all_headers_set' = {}
    /\ all_keys' = {}
    /\ master_header_list' = <<>>
    /\ pc' = "load"
    /\ UNCHANGED <<inputVars, researcher_files, num_researchers,
                   agreement_threshold, final_ordered_headers, sorted_keys, rowVars,
                   countVars, outVars, nonAggVars>>

\* lines 114-123, one file
LoadFile ==
    /\ pc = "load"
    /\ load_i <= num_researchers
    /\ LET got == load_and_clean_csv(dir_entries[researcher_files[load_i]], is_meta_human)
       IN  /\ ~got.uncaught
           /\ master_header_list' =
                  IF master_header_list = <<>> /\ got.header_list # <<>>
                  THEN got.header_list ELSE master_header_list
           /\ all_data' = Append(all_data, got.data_map)
           /\ all_headers_set' = all_headers_set \cup SeqToSet(got.header_list)
           /\ all_keys' = all_keys \cup DOMAIN got.data_map
    /\ load_i' = load_i + 1
    /\ UNCHANGED <<inputVars, pc, researcher_files, num_researchers,
                   agreement_threshold, final_ordered_headers, sorted_keys, rowVars,
                   countVars, outVars, report, nonAggVars>>

\* line 115 when load_and_clean_csv lets an exception through: the traceback
\* ends the process
LoadFileRaises ==
    /\ pc = "load"
    /\ load_i <= num_researchers
    /\ load_and_clean_csv(dir_entries[researcher_files[load_i]], is_meta_human).uncaught
    /\ report' = "traceback"
    /\ pc' = "crashed"
    /\ UNCHANGED <<inputVars, researcher_files, num_researchers, loadVars,
                   agreement_threshold, final_ordered_headers, sorted_keys, rowVars,
                   countVars, outVars, nonAggVars>>

\* lines 126-129
DetermineThreshold ==
    /\ pc = "load"
    /\ load_i > num_researchers
    /\ agreement_threshold' = AgreementThreshold(num_researchers)
    /\ report' = "threshold"
    /\ pc' = "check_keys"
    /\ UNCHANGED <<inputVars, researcher_files, num_researchers, loadVars,
                   final_ordered_headers, sorted_keys, rowVars, countVars, outVars,
                   nonAggVars>>

\* the mutant of NoData that writes the header-only file before returning
NoDataWritesFile ==
    /\ pc = "check_keys"
    /\ all_keys = {}
    /\ output_file' = <<[fieldnames |-> master_header_list, rows |-> <<>>]>>
    /\ output_writes' = output_writes + 1
    /\ report' = "no_data"
    /\ pc' = "returned"
    /\ UNCHANGED <<inputVars, researcher_files, num_researchers, loadVars,
                   agreement_threshold, final_ordered_headers, sorted_keys, rowVars,
                   countVars, nonAggVars>>

\* lines 131-133
NoData ==
    /\ pc = "check_keys"
    /\ all_keys = {}
    /\ report' = "no_data"
    /\ pc' = "returned"
    /\ UNCHANGED <<inputVars, researcher_files, num_researchers, loadVars,
                   agreement_threshold, final_ordered_headers, sorted_keys, rowVars,
                   countVars, outVars, nonAggVars>>

\* lines 135-174
OrderHeaders ==
    /\ pc = "check_keys"
    /\ all_keys # {}
    /\ final_ordered_headers' \in
           FinalHeaderOrders(master_header_list, all_headers_set, KeyCols(is_meta_human))
    /\ mismatches_count' = 0
    /\ removed_entries_count' = 0
    /\ total_entries_count' = 0
    /\ combined_rows' = <<>>
    /\ sorted_keys' = SortedKeys(all_keys, is_meta_human)
    /\ key_i' = 1
    /\ header_i' = 0
    /\ new_row' = EmptyMap
    /\ pc' = "rows"
    /\ UNCHANGED <<inputVars, researcher_files, num_researchers, loadVars,
                   agreement_threshold, outVars, report, nonAggVars>>

\* lines 177-181
StartRow ==
    /\ pc = "rows"
    /\ key_i <= Len(sorted_keys)
    /\ header_i = 0
    /\ LET key_cols == KeyCols(is_meta_human)
       IN  /\ new_row' = [c \in SeqToSet(key_cols) |->
                             sorted_keys[key_i][IndexOf(key_cols, c)]]
           /\ header_i' = NextValueColumn(final_ordered_headers, key_cols, 1)
    /\ UNCHANGED <<inputVars, pc, researcher_files, num_researchers, loadVars,
                   agreement_threshold, final_ordered_headers, sorted_keys, key_i,
                   combined_rows, countVars, outVars, report, nonAggVars>>

\* the cell the column loop is at
AtCell ==
    /\ pc = "rows"
    /\ key_i <= Len(sorted_keys)
    /\ header_i >= 1
    /\ header_i <= Len(final_ordered_headers)

CurrentCellValues ==
    CellValues(all_data, sorted_keys[key_i], final_ordered_headers[header_i])

\* lines 187-209: the most frequent value reaches the threshold
ConsensusCell ==
    /\ AtCell
    /\ LET cell_values == CurrentCellValues
           top         == MostCommon(cell_values)
       IN  /\ top.count >= agreement_threshold
           /\ total_entries_count' = total_entries_count + TotalEntries(cell_values)
           /\ new_row' = Put(new_row, final_ordered_headers[header_i], top.value)
           /\ removed_entries_count' =
                  removed_entries_count + RemovedEntries(cell_values, TokenSet(top.value))
    /\ header_i' = NextValueColumn(final_ordered_headers, KeyCols(is_meta_human),
                                   header_i + 1)
    /\ UNCHANGED <<inputVars, pc, researcher_files, num_researchers, loadVars,
                   agreement_threshold, final_ordered_headers, sorted_keys, key_i,
                   combined_rows, mismatches_count, outVars, report, nonAggVars>>

\* lines 187-201 and 210-215: no value reaches the threshold
MismatchCell ==
    /\ AtCell
    /\ LET cell_values == CurrentCellValues
           top         == MostCommon(cell_values)
       IN  /\ top.count < agreement_threshold
           /\ total_entries_count' = total_entries_count + TotalEntries(cell_values)
           /\ new_row' = Put(new_row, final_ordered_headers[header_i], "")
           /\ mismatches_count' = mismatches_count + 1
           /\ removed_entries_count' =
                  removed_entries_count + RemovedEntries(cell_values, {})
    /\ header_i' = NextValueColumn(final_ordered_headers, KeyCols(is_meta_human),
                                   header_i + 1)
    /\ UNCHANGED <<inputVars, pc, researcher_files, num_researchers, loadVars,
                   agreement_threshold, final_ordered_headers, sorted_keys, key_i,
                   combined_rows, outVars, report, nonAggVars>>

\* line 217
EndRow ==
    /\ pc = "rows"
    /\ key_i <= Len(sorted_keys)
    /\ header_i > Len(final_ordered_headers)
    /\ combined_rows' = Append(combined_rows, new_row)
    /\ key_i' = key_i + 1
    /\ header_i' = 0
    /\ UNCHANGED <<inputVars, pc, researcher_files, num_researchers, loadVars,
                   agreement_threshold, final_ordered_headers, sorted_keys, new_row,
                   countVars, outVars, report, nonAggVars>>

\* line 224: csv.DictWriter is given no delimiter and no dialect, so it writes
\* with the default dialect's one
ExcelDelimiter == ","

\* csv.DictWriter(outfile, fieldnames).writeheader(); writerows(rows):
\* a field a row lacks is written as ''
WrittenCsv(fieldnames, rows) ==
    [delimiter |-> ExcelDelimiter,
     fieldnames |-> fieldnames,
     rows |-> [r \in DOMAIN rows |->
                  [c \in DOMAIN fieldnames |->
                      IF fieldnames[c] \in DOMAIN rows[r]
                      THEN rows[r][fieldnames[c]] ELSE ""]]]

\* lines 219-241
WriteOutput ==
    /\ pc = "rows"
    /\ key_i > Len(sorted_keys)
    /\ output_file' = <<WrittenCsv(final_ordered_headers, combined_rows)>>
    /\ output_writes' = output_writes + 1
    /\ report' = "summary"
    /\ pc' = "done"
    /\ UNCHANGED <<inputVars, researcher_files, num_researchers, loadVars,
                   agreement_threshold, final_ordered_headers, sorted_keys, rowVars,
                   countVars, nonAggVars>>

\* lines 221-229: open() raises IOError
WriteOutputFails ==
    /\ pc = "rows"
    /\ key_i > Len(sorted_keys)
    /\ report' = "write_error"
    /\ pc' = "returned"
    /\ UNCHANGED <<inputVars, researcher_files, num_researchers, loadVars,
                   agreement_threshold, final_ordered_headers, sorted_keys, rowVars,
                   countVars, outVars, nonAggVars>>

Next ==
    \/ DirMissing
    \/ FindFiles
    \/ TooFewFiles
    \/ EnoughFiles
    \/ LoadFile
    \/ LoadFileRaises
    \/ DetermineThreshold
    \/ NoData
    \/ OrderHeaders
    \/ StartRow
    \/ ConsensusCell
    \/ MismatchCell
    \/ EndRow
    \/ WriteOutput
    \/ WriteOutputFails

\* ---- the results trees the runs start from
\* sep is the separator the file is written with
OtherDir ==
    [prefixed |-> FALSE, kind |-> "nofile", sep |-> ",", header |-> <<>>, rows |-> <<>>]

NoTargetFile ==
    [prefixed |-> TRUE, kind |-> "nofile", sep |-> ",", header |-> <<>>, rows |-> <<>>]

BadFile(kind) ==
    [prefixed |-> TRUE, kind |-> kind, sep |-> ",", header |-> <<>>, rows |-> <<>>]

DataFileSep(header, rows, sep) ==
    [prefixed |-> TRUE, kind |-> "data", sep |-> sep, header |-> header, rows |-> rows]

DataFile(header, rows) == DataFileSep(header, rows, ",")

SingleHeader == <<"Interview ID", "Scenario", "R1">>

MetaHeader == <<"Interview ID", "Scenario", "Iteration", "R1">>

SeqsUpTo(S, lo, hi) == UNION {[1..n -> S] : n \in lo..hi}

\* voting runs: every rater has one row for the key (I1, S1)
VoteCells == {"", "A", "B", "C", "A,B", " B ,A"}

VoteFiles == {DataFile(SingleHeader, <<(<<"I1", "S1", c>>)>>) : c \in VoteCells}

\* threshold runs: many raters, two possible cells
ThresholdFiles == {DataFile(SingleHeader, <<(<<"I1", "S1", c>>)>>) : c \in {"A", "B"}}

\* runs with directories and files that contribute nothing or fail
FailureEntries ==
    { OtherDir, NoTargetFile, BadFile("denied"), BadFile("vanished"), BadFile("empty"),
      DataFile(<<"Interview ID", "R1">>, <<(<<"I1", "A">>)>>),
      DataFile(SingleHeader, <<(<<"I1", "S1", "A">>)>>),
      DataFile(SingleHeader, <<(<<"I1", "S1">>), <<"I2", "S1", "A">>>>),
      DataFile(SingleHeader, <<(<<"I1", "S1", "A">>), <<"I2", "S1", "A", "x">>>>),
      DataFile(<<"^Interview ID", " Scenario", "R2", "R1">>, <<(<<"I1 ", "S1", "B", "A">>)>>) }

\* key-ordering runs: the first rater lists distinct keys in any order, the
\* second lists them in the opposite order, the third has a header only
KeyPool(is_meta) ==
    IF is_meta
    THEN {<<i, s, t>> : i \in {"I1", "I2"}, s \in {"S1", "S2"}, t \in {"10", "2"}}
    ELSE {<<i, s>> : i \in {"I1", "I2"}, s \in {"S1", "S2"}}

KeyLists(is_meta) ==
    {ks \in SeqsUpTo(KeyPool(is_meta), 0, MaxRows) :
        \A i, j \in DOMAIN ks : i # j => ks[i] # ks[j]}

Reverse(xs) == [i \in DOMAIN xs |-> xs[Len(xs) + 1 - i]]

KeyFiles(is_meta, ks) ==
    LET header == IF is_meta THEN MetaHeader ELSE SingleHeader
        rows   == [i \in DOMAIN ks |-> ks[i] \o <<"A">>]
    IN  <<DataFile(header, rows), DataFile(header, Reverse(rows)), DataFile(header, <<>>)>>

\* single runs: the trees of the specification's examples
\*   three raters voting "B1", "B1", "B2"
\*   a second rater with two columns the first rater lacks
\*   raters whose files have an Iteration column and two rows that differ in
\*   it only
RemovedExampleTree ==
    <<DataFile(SingleHeader, <<(<<"I1", "S1", "B1">>)>>),
      DataFile(SingleHeader, <<(<<"I1", "S1", "B1">>)>>),
      DataFile(SingleHeader, <<(<<"I1", "S1", "B2">>)>>)>>

LaterHeadersTree ==
    <<DataFile(<<"Interview ID", "Scenario">>, <<>>),
      BadFile("empty"),
      DataFile(<<"Interview ID", "R1", "Scenario">>, <<(<<"I1", "A", "S1">>)>>),
      DataFile(<<"Interview ID", "Scenario", "R2", "R1", "R3">>,
               <<(<<"I1", "S1", "A", "A", "A">>)>>),
      DataFile(<<"Interview ID", "Scenario", "R3", "R4">>,
               <<(<<"I1", "S1", "A", "A">>)>>)>>

IterationRowsTree ==
    [i \in 1..3 |-> DataFile(MetaHeader, <<(<<"I1", "S1", "1", "A">>),
                                           <<"I1", "S1", "2", "B">>>>)]

ExampleTrees == {RemovedExampleTree, LaterHeadersTree, IterationRowsTree}

InitInputs ==
    \/ /\ dir_exists = TRUE
       /\ is_meta_human \in BOOLEAN
       /\ dir_entries \in ExampleTrees
    \/ /\ dir_exists = FALSE
       /\ dir_entries = <<>>
       /\ is_meta_human \in BOOLEAN
    \/ /\ dir_exists = TRUE
       /\ is_meta_human = FALSE
       /\ dir_entries \in SeqsUpTo(VoteFiles, 3, MaxVoters)
    \/ /\ dir_exists = TRUE
       /\ is_meta_human = FALSE
       /\ dir_entries \in SeqsUpTo(ThresholdFiles, 0, MaxFiles)
    \/ /\ dir_exists = TRUE
       /\ is_meta_human \in BOOLEAN
       /\ dir_entries \in SeqsUpTo(FailureEntries, 0, MaxEntries)
    \/ /\ dir_exists = TRUE
       /\ is_meta_human \in BOOLEAN
       /\ dir_entries \in {KeyFiles(is_meta_human, ks) : ks \in KeyLists(is_meta_human)}

Init ==
    /\ InitInputs
    /\ pc = "start" /\ researcher_files = <<>> /\ num_researchers = 0
    /\ load_i = 0 /\ all_data = <<>> /\ all_headers_set = {} /\ all_keys = {}
    /\ master_header_list = <<>> /\ agreement_threshold = 0
    /\ final_ordered_headers = <<>> /\ sorted_keys = <<>>
    /\ key_i = 0 /\ header_i = 0 /\ new_row = EmptyMap /\ combined_rows = <<>>
    /\ mismatches_count = 0 /\ removed_entries_count = 0 /\ total_entries_count = 0
    /\ output_file = <<>> /\ output_writes = 0
    /\ report = ""
    /\ CellIdle
    /\ TextIdle
    /\ FuzzyIdle
    /\ VerifyIdle
    /\ ToolsIdle

Spec == Init /\ [][Next]_vars

\* ------------------------------------------ properties of the aggregator
\* the rater files on disk, as indexes into dir_entries
FilesOnDisk == {i \in DOMAIN dir_entries : dir_entries[i].prefixed /\ dir_entries[i].kind # "nofile"}

Terminated == pc \in {"returned", "done", "crashed"}

\* the non-key columns of the output
ValueHeaders == SeqToSet(final_ordered_headers) \ SeqToSet(KeyCols(is_meta_human))

\* the (row, column) cells the loops have gone through: all cells of the rows
\* appended, and the cells of the row being built that lie before header_i
ProcessedCells ==
    {<<k, h>> : k \in DOMAIN combined_rows, h \in ValueHeaders}
    \cup (IF pc = "rows" /\ key_i <= Len(sorted_keys) /\ header_i >= 1
          THEN {<<key_i, final_ordered_headers[j]>> :
                    j \in {n \in DOMAIN final_ordered_headers :
                              n < header_i /\ final_ordered_headers[n] \in ValueHeaders}}
          ELSE {})

RowOf(k) == IF k \in DOMAIN combined_rows THEN combined_rows[k] ELSE new_row

VotesOf(cell) == CellValues(all_data, sorted_keys[cell[1]], cell[2])

\* the highest number of raters that vote the same value
MaxVotes(cell_values) ==
    CHOOSE n \in 0..Len(cell_values) :
        /\ \E i \in DOMAIN cell_values : CountOf(cell_values, cell_values[i]) = n
        /\ \A i \in DOMAIN cell_values : CountOf(cell_values, cell_values[i]) <= n

HasConsensus(cell) == MaxVotes(VotesOf(cell)) >= agreement_threshold

\* the tree of K one-row rater files with the given raw cells for key (I1, S1)
TreeOfCells(cells) ==
    [i \in DOMAIN cells |-> DataFile(SingleHeader, <<(<<"I1", "S1", cells[i]>>)>>)]

\* C1: every processed cell whose most frequent normalized value (the empty
\* string included) is voted by at least threshold raters holds exactly that
\* value, every other processed cell is empty and is counted as one mismatch;
\* with three raters "A,B","A,B","C" give "A,B" and no mismatch, and "A","B","C"
\* give "" and one mismatch
C1_MajorityVote ==
    /\ \A cell \in ProcessedCells :
           LET votes == VotesOf(cell)
               held  == RowOf(cell[1])[cell[2]]
           IN  IF HasConsensus(cell)
               THEN CountOf(votes, held) = MaxVotes(votes)
               ELSE held = ""
    /\ pc \in {"rows", "done", "returned"} /\ sorted_keys # <<>> =>
           mismatches_count = Cardinality({cell \in ProcessedCells : ~HasConsensus(cell)})
    /\ pc = "done" /\ dir_entries = TreeOfCells(<<"A,B", "A,B", "C">>) =>
           /\ output_file[1].rows = <<(<<"I1", "S1", "A,B">>)>>
           /\ mismatches_count = 0
    /\ pc = "done" /\ dir_entries = TreeOfCells(<<"A", "B", "C">>) =>
           /\ output_file[1].rows = <<(<<"I1", "S1", "">>)>>
           /\ mismatches_count = 1

\* four raters, of whom only two agree after normalization: the cell is
\* written empty and one mismatch is counted
C1_Witness ==
    /\ pc = "done"
    /\ dir_entries = TreeOfCells(<<"C", " B ,A", "A,B", "">>)
    /\ agreement_threshold = 3
    /\ output_file[1].rows = <<(<<"I1", "S1", "">>)>>
    /\ mismatches_count = 1

\* C2: once determined, the agreement threshold is the least integer that is
\* at least 2K/3, K being the number of rater files found on disk; it is 2, 3,
\* 4, 4 for K = 3, 4, 5, 6 and never exceeds K
C2_ThresholdIsCeilTwoThirds ==
    agreement_threshold # 0 =>
        LET K == Cardinality(FilesOnDisk)
        IN  /\ K >= 3
            /\ 3 * agreement_threshold >= 2 * K
            /\ 3 * (agreement_threshold - 1) < 2 * K
            /\ agreement_threshold <= K
            /\ K = 3 => agreement_threshold = 2
            /\ K = 4 => agreement_threshold = 3
            /\ K = 5 => agreement_threshold = 4
            /\ K = 6 => agreement_threshold = 4

\* six rater files were found and the threshold was set to 4
C2_Witness ==
    /\ Cardinality(FilesOnDisk) = 6
    /\ pc = "done"
    /\ agreement_threshold = 4

\* the runs the aggregator gives up on
TooFewOnDisk == dir_exists /\ Cardinality(FilesOnDisk) < 3

NoRowOnDisk ==
    /\ dir_exists
    /\ Cardinality(FilesOnDisk) >= 3
    /\ \A i \in FilesOnDisk :
           DOMAIN load_and_clean_csv(dir_entries[i], is_meta_human).data_map = {}

AbortCase == ~dir_exists \/ TooFewOnDisk \/ NoRowOnDisk

FailsToParse(file) ==
    \/ file.kind \in {"empty", "vanished", "denied"}
    \/ /\ file.kind = "data"
       /\ \E c \in SeqToSet(KeyCols(is_meta_human)) : c \notin SeqToSet(CleanHeader(file.header))

\* C5: with at least 3 rater files found, a file that is empty, unreadable or
\* lacks a key column does not abort the run: it is loaded as the empty
\* mapping, votes the empty string in every cell, and the threshold stays
\* ceil(2K/3) over the K files found
C5_FailedFileIsNonFatal ==
    /\ pc # "crashed"
    /\ \A i \in DOMAIN all_data :
           FailsToParse(dir_entries[researcher_files[i]]) =>
               /\ all_data[i] = EmptyMap
               /\ \A cell \in ProcessedCells : VotesOf(cell)[i] = ""
    /\ agreement_threshold # 0 =>
           agreement_threshold = CeilDiv(2 * Cardinality(FilesOnDisk), 3)

\* (Scenario, Interview ID[, Iteration]) of a written row, read through the
\* output's own field names
OutputRowOrderKey(csv, r) ==
    LET cell(name) == csv.rows[r][IndexOf(csv.fieldnames, name)]
    IN  IF is_meta_human
        THEN <<cell("Scenario"), cell("Interview ID"), cell("Iteration")>>
        ELSE <<cell("Scenario"), cell("Interview ID")>>

\* (Interview ID, Scenario[, Iteration]) of a written row
OutputRowKey(csv, r) ==
    LET cell(name) == csv.rows[r][IndexOf(csv.fieldnames, name)]
    IN  IF is_meta_human
        THEN <<cell("Interview ID"), cell("Scenario"), cell("Iteration")>>
        ELSE <<cell("Interview ID"), cell("Scenario")>>

\* C8: the rows of the written output are in ascending order of Scenario, then
\* Interview ID, then (meta variant) Iteration, compared as strings
C8_RowsSortedByScenario ==
    output_file # <<>> =>
        \A r1, r2 \in DOMAIN output_file[1].rows :
            r1 < r2 => TupleLess(OutputRowOrderKey(output_file[1], r1),
                                 OutputRowOrderKey(output_file[1], r2))

\* a meta run whose first rater lists three keys in descending order
C8_Witness ==
    /\ pc = "done"
    /\ is_meta_human
    /\ dir_entries[1].rows =
           << <<"I2", "S2", "2", "A">>, <<"I2", "S1", "2", "A">>, <<"I1", "S1", "10", "A">> >>
    /\ Len(output_file[1].rows) = 3

\* the three keys of the spec's example, in the order the first rater lists them
ExampleKeys == << <<"I2", "S1">>, <<"I1", "S1">>, <<"I1", "S2">> >>

WrittenKeys == [r \in DOMAIN output_file[1].rows |-> OutputRowKey(output_file[1], r)]

\* C9 as stated: the keys (I2,S1), (I1,S1), (I1,S2) are written in that order
C9_AsStated ==
    pc = "done" /\ ~is_meta_human /\ all_keys = SeqToSet(ExampleKeys) =>
        WrittenKeys = ExampleKeys

\* C9 amended: for the keys (I2,S1), (I1,S1), (I1,S2) of the non-meta variant
\* the rows are written in the order (I1,S1), (I2,S1), (I1,S2)
C9_ExampleOrder ==
    pc = "done" /\ ~is_meta_human /\ all_keys = SeqToSet(ExampleKeys) =>
        WrittenKeys = << <<"I1", "S1">>, <<"I2", "S1">>, <<"I1", "S2">> >>

\* the first rater lists the example's keys in the example's order
C9_Witness ==
    /\ pc = "done"
    /\ ~is_meta_human
    /\ [i \in DOMAIN dir_entries[1].rows |-> SubSeq(dir_entries[1].rows[i], 1, 2)] = ExampleKeys
    /\ Len(WrittenKeys) = 3

\* what the rater files on disk hold, file by file
KeysOnDisk ==
    UNION {DOMAIN load_and_clean_csv(dir_entries[i], is_meta_human).data_map : i \in FilesOnDisk}

HeadersOnDisk ==
    UNION {SeqToSet(load_and_clean_csv(dir_entries[i], is_meta_human).header_list) :
               i \in FilesOnDisk}

\* C10: the written output has exactly one row for every key of the union of
\* the raters' key sets and no other row; its columns are the key columns and
\* every non-key column of the union of the raters' headers, each once, and
\* every row has one cell per column
C10_OneRowPerKey ==
    output_file # <<>> =>
        LET csv == output_file[1]
        IN  /\ {OutputRowKey(csv, r) : r \in DOMAIN csv.rows} = KeysOnDisk
            /\ Len(csv.rows) = Cardinality(KeysOnDisk)
            /\ SeqToSet(csv.fieldnames) = HeadersOnDisk
            /\ Len(csv.fieldnames) = Cardinality(HeadersOnDisk)
            /\ SeqToSet(KeyCols(is_meta_human)) \subseteq SeqToSet(csv.fieldnames)
            /\ \A r \in DOMAIN csv.rows :
                   /\ Len(csv.rows[r]) = Len(csv.fieldnames)
                   /\ DOMAIN combined_rows[r] = SeqToSet(csv.fieldnames)

\* two raters with different keys, one of them with a column the first lacks
C10_Witness ==
    /\ pc = "done"
    /\ Cardinality(KeysOnDisk) = 2
    /\ "R2" \in HeadersOnDisk
    /\ "R2" \notin SeqToSet(master_header_list)
    /\ Len(output_file[1].rows) = 2

\* the tokens of the raters' cells that do not belong to the given set, rater
\* by rater up to rater n
RECURSIVE TokensOutside(_, _, _)
TokensOutside(votes, kept, n) ==
    IF n = 0 THEN 0
    ELSE Cardinality(TokenSet(votes[n]) \ kept) + TokensOutside(votes, kept, n - 1)

\* what one processed cell adds to the removed-entries counter
RemovedOfCell(cell) ==
    LET votes == VotesOf(cell)
    IN  IF HasConsensus(cell)
        THEN TokensOutside(votes, TokenSet(RowOf(cell[1])[cell[2]]), Len(votes))
        ELSE TokensOutside(votes, {}, Len(votes))

RECURSIVE SumOfCells(_)
SumOfCells(cells) ==
    IF cells = {} THEN 0
    ELSE LET c == CHOOSE x \in cells : TRUE
         IN  RemovedOfCell(c) + SumOfCells(cells \ {c})

\* C11: the removed-entries counter is the sum, over the cells processed so
\* far, of the raters' tokens outside the consensus token set when the cell
\* has a consensus, and of all the raters' tokens when it has none; the
\* raters' cells "B1", "B1", "B2" end with consensus "B1", no mismatch and a
\* removed-entries count of 1
C11_RemovedEntriesCount ==
    /\ pc \in {"rows", "done", "returned"} /\ final_ordered_headers # <<>>
           => removed_entries_count = SumOfCells(ProcessedCells)
    /\ pc = "done" /\ ~is_meta_human /\ dir_entries = RemovedExampleTree
           => /\ output_file[1].rows = <<(<<"I1", "S1", "B1">>)>>
              /\ mismatches_count = 0
              /\ removed_entries_count = 1

\* the run of the example has ended: one token removed, no mismatch
C11_Witness ==
    /\ pc = "done"
    /\ dir_entries = RemovedExampleTree
    /\ output_file # <<>>
    /\ removed_entries_count = 1
    /\ mismatches_count = 0

\* the header lists the rater files found load to, in processing order
HeaderListsLoaded ==
    [i \in DOMAIN researcher_files |->
        load_and_clean_csv(dir_entries[researcher_files[i]], is_meta_human).header_list]

\* the headers of the lists that are not in seen, each once, in the order in
\* which they first occur (list by list, then by position in the list)
RECURSIVE FirstSeen(_, _)
FirstSeen(lists, seen) ==
    IF lists = <<>> THEN <<>>
    ELSE IF Head(lists) = <<>> THEN FirstSeen(Tail(lists), seen)
    ELSE LET h    == Head(Head(lists))
             rest == <<Tail(Head(lists))>> \o Tail(lists)
         IN  IF h \in seen THEN FirstSeen(rest, seen)
             ELSE <<h>> \o FirstSeen(rest, seen \cup {h})

\* the header list of the first file that yields one
RECURSIVE FirstParsedHeader(_)
FirstParsedHeader(lists) ==
    IF lists = <<>> THEN <<>>
    ELSE IF Head(lists) # <<>> THEN Head(lists)
    ELSE FirstParsedHeader(Tail(lists))

\* C12: the columns of the written output are the header list of the first
\* rater file that parsed, followed by the headers that occur only in later
\* files in first-seen order
C12_LaterHeadersInFirstSeenOrder ==
    output_file # <<>> =>
        LET master == FirstParsedHeader(HeaderListsLoaded)
        IN  output_file[1].fieldnames
                = master \o FirstSeen(HeaderListsLoaded, SeqToSet(master))

\* the rater file that all_data[i] was loaded from
FileLoaded(i) == dir_entries[researcher_files[i]]

\* the rows of a file that are as long as its header
FullRows(file) == {r \in DOMAIN file.rows : Len(file.rows[r]) = Len(file.header)}

\* the trimmed value of a row in the named column
ValueIn(file, r, col) == Strip(file.rows[r][IndexOf(CleanHeader(file.header), col)])

HasIterationColumn(file) == "Iteration" \in SeqToSet(CleanHeader(file.header))

\* the file yields records: it has the key columns and no row too long
YieldsRecords(i) == all_data[i] # EmptyMap

\* C19 as stated: a loaded file is keyed by (Interview ID, Scenario, Iteration)
\* whenever it has an Iteration column, by (Interview ID, Scenario) otherwise
C19_AsStated ==
    \A i \in DOMAIN all_data :
        YieldsRecords(i) =>
            DOMAIN all_data[i] =
                IF HasIterationColumn(FileLoaded(i))
                THEN {<<ValueIn(FileLoaded(i), r, "Interview ID"),
                        ValueIn(FileLoaded(i), r, "Scenario"),
                        ValueIn(FileLoaded(i), r, "Iteration")>> :
                          r \in FullRows(FileLoaded(i))}
                ELSE {<<ValueIn(FileLoaded(i), r, "Interview ID"),
                        ValueIn(FileLoaded(i), r, "Scenario")>> :
                          r \in FullRows(FileLoaded(i))}

\* C19 amended: a loaded file is keyed by (Interview ID, Scenario, Iteration)
\* in the meta variant of the target file name, where two rows that differ
\* only in Iteration are two records, and by (Interview ID, Scenario) in the
\* other variant, where an Iteration column is a value column and of the rows
\* that differ only in it the last one is the record kept
C19_KeyedByVariant ==
    \A i \in DOMAIN all_data :
        YieldsRecords(i) =>
            /\ is_meta_human =>
                   /\ HasIterationColumn(FileLoaded(i))
                   /\ DOMAIN all_data[i] =
                          {<<ValueIn(FileLoaded(i), r, "Interview ID"),
                             ValueIn(FileLoaded(i), r, "Scenario"),
                             ValueIn(FileLoaded(i), r, "Iteration")>> :
                               r \in FullRows(FileLoaded(i))}
            /\ ~is_meta_human =>
                   /\ DOMAIN all_data[i] =
                          {<<ValueIn(FileLoaded(i), r, "Interview ID"),
                             ValueIn(FileLoaded(i), r, "Scenario")>> :
                               r \in FullRows(FileLoaded(i))}
                   /\ HasIterationColumn(FileLoaded(i)) =>
                          \A r \in FullRows(FileLoaded(i)) :
                              (\A q \in FullRows(FileLoaded(i)) :
                                   q > r =>
                                       \/ ValueIn(FileLoaded(i), q, "Interview ID")
                                              # ValueIn(FileLoaded(i), r, "Interview ID")
                                       \/ ValueIn(FileLoaded(i), q, "Scenario")
                                              # ValueIn(FileLoaded(i), r, "Scenario"))
                              => all_data[i][<<ValueIn(FileLoaded(i), r, "Interview ID"),
                                               ValueIn(FileLoaded(i), r, "Scenario")>>]
                                     ["Iteration"]
                                         = ValueIn(FileLoaded(i), r, "Iteration")

\* files with two rows that differ only in Iteration have been loaded in the
\* meta variant: two records each
C19_Witness ==
    /\ is_meta_human
    /\ dir_entries = IterationRowsTree
    /\ pc = "done"
    /\ \A i \in DOMAIN all_data :
           DOMAIN all_data[i] = {<<"I1", "S1", "1">>, <<"I1", "S1", "2">>}

\* --------------------------------------------- runs on further rater trees
\* raters whose files are all written with one separator; a cell with two
\* tokens needs no quoting in a semicolon-separated file
DelimiterTrees ==
    {[i \in 1..3 |-> DataFileSep(SingleHeader, <<(<<"I1", "S1", "A,B">>)>>, sep)] :
        sep \in {",", ";"}}

\* raters that have no row at all, a row for another key only, an empty
\* cell, or a cell with tokens
AbsentRowFiles ==
    { DataFile(SingleHeader, <<>>),
      DataFile(SingleHeader, <<(<<"I2", "S1", "A">>)>>),
      DataFile(SingleHeader, <<(<<"I1", "S1", " , ">>)>>),
      DataFile(SingleHeader, <<(<<"I1", "S1", "A,A">>)>>),
      DataFile(SingleHeader, <<(<<"I1", "S1", "B,A">>)>>) }

\* raters whose files have a row shorter or longer than the header (each file
\* with a value column of its own), a directory without the target file and
\* a file that cannot be opened
ShortRowFile ==
    DataFile(<<"Interview ID", "Scenario", "R2">>,
             <<(<<"I1", "S1">>), <<>>, <<"I2", "S1", "A">>>>)

LongLastRowFile ==
    DataFile(<<"Interview ID", "Scenario", "R3">>,
             <<(<<"I1", "S1", "A">>), <<"I3", "S1", "A", "x">>>>)

LongFirstRowFile ==
    DataFile(<<"Interview ID", "Scenario", "R4">>,
             <<(<<"I3", "S1", "A", "x">>), <<"I1", "S1", "A">>>>)

FullRowsFile ==
    DataFile(SingleHeader, <<(<<"I1", "S1", "A">>), <<"I2", "S1", "B">>>>)

RowLengthEntries ==
    { ShortRowFile, LongLastRowFile, LongFirstRowFile, FullRowsFile,
      NoTargetFile, BadFile("denied") }

RaterInputs ==
    \/ /\ dir_exists = TRUE
       /\ is_meta_human = FALSE
       /\ dir_entries \in SeqsUpTo(RowLengthEntries, 3, MaxEntries)
    \/ /\ dir_exists = FALSE
       /\ dir_entries = <<>>
       /\ is_meta_human = FALSE
    \/ /\ dir_exists = TRUE
       /\ is_meta_human = FALSE
       /\ dir_entries \in SeqsUpTo(AbsentRowFiles, 3, MaxVoters)
    \/ /\ dir_exists = TRUE
       /\ is_meta_human = FALSE
       /\ dir_entries \in SeqsUpTo(ThresholdFiles, MaxVoters + 1, MaxFiles)
    \/ /\ dir_exists = TRUE
       /\ is_meta_human \in BOOLEAN
       /\ dir_entries \in DelimiterTrees

InitRaters ==
    /\ RaterInputs
    /\ pc = "start" /\ researcher_files = <<>> /\ num_researchers = 0
    /\ load_i = 0 /\ all_data = <<>> /\ all_headers_set = {} /\ all_keys = {}
    /\ master_header_list = <<>> /\ agreement_threshold = 0
    /\ final_ordered_headers = <<>> /\ sorted_keys = <<>>
    /\ key_i = 0 /\ header_i = 0 /\ new_row = EmptyMap /\ combined_rows = <<>>
    /\ mismatches_count = 0 /\ removed_entries_count = 0 /\ total_entries_count = 0
    /\ output_file = <<>> /\ output_writes = 0
    /\ report = ""
    /\ CellIdle
    /\ TextIdle
    /\ FuzzyIdle
    /\ VerifyIdle
    /\ ToolsIdle

SpecRaters == InitRaters /\ [][Next]_vars

\* the rater files that were found and hold a header line
RaterFiles ==
    {dir_entries[researcher_files[i]] : i \in DOMAIN researcher_files}

\* C21: the combined output is written with the delimiter of the rater
\* inputs: semicolons when the raters' header line contains a semicolon,
\* commas otherwise
C21_OutputKeepsDelimiter ==
    output_file # <<>> =>
        \A file \in RaterFiles :
            file.kind = "data" => output_file[1].delimiter = Delimiter(FirstLine(file))

\* the raters that have no row for the key, or an empty cell in the column
EmptyVoters(key, header) ==
    {i \in DOMAIN all_data :
        \/ key \notin DOMAIN all_data[i]
        \/ header \notin DOMAIN all_data[i][key]
        \/ normalize_cell_value(all_data[i][key][header]) = ""}

\* the number of tokens in the cells of the raters in the set, a token that a
\* rater repeats within the cell counted once
RECURSIVE TokensOfRaters(_, _, _)
TokensOfRaters(raters, key, header) ==
    IF raters = {} THEN 0
    ELSE LET i == CHOOSE x \in raters : TRUE
         IN  Cardinality(TokenSet(normalize_cell_value(all_data[i][key][header])))
             + TokensOfRaters(raters \ {i}, key, header)

AbsentVotesStep ==
    AtCell =>
        LET key     == sorted_keys[key_i]
            header  == final_ordered_headers[header_i]
            empties == EmptyVoters(key, header)
        IN  /\ Len(CurrentCellValues) = Len(all_data)
            /\ \A i \in DOMAIN all_data :
                   key \notin DOMAIN all_data[i] => CurrentCellValues[i] = ""
            /\ Cardinality(empties) >= agreement_threshold =>
                   /\ header \in DOMAIN new_row'
                   /\ new_row'[header] = ""
                   /\ mismatches_count' = mismatches_count
                   /\ removed_entries_count' =
                          removed_entries_count
                          + TokensOfRaters((DOMAIN all_data) \ empties, key, header)

\* C24: a rater with no row for a key votes the empty string in every column
\* of the key; when at least threshold raters have no row or an empty cell,
\* the consensus cell is empty, no mismatch is counted for the cell and the
\* tokens of the other raters' cells all count as removed
C24_AbsentRatersVoteEmpty == [][AbsentVotesStep]_vars

\* a rater with the cell "B,A", one with no row and one with an empty cell:
\* the cell is empty, without a mismatch, and two tokens are removed
C24_Witness ==
    /\ dir_entries = <<DataFile(SingleHeader, <<(<<"I1", "S1", "B,A">>)>>),
                       DataFile(SingleHeader, <<>>),
                       DataFile(SingleHeader, <<(<<"I1", "S1", " , ">>)>>)>>
    /\ pc = "done"
    /\ output_file[1].rows = <<(<<"I1", "S1", "">>)>>
    /\ mismatches_count = 0
    /\ removed_entries_count = 2

\* the votes in every order in which the raters' files can be processed
Reorderings(cell_values) ==
    {[i \in DOMAIN cell_values |-> cell_values[order[i]]] :
        order \in Orderings(DOMAIN cell_values)}

\* every value with its count that Counter.most_common(1) can return: the
\* values of the greatest count
TiedTops(cell_values) ==
    {[value |-> cell_values[i], count |-> CountOf(cell_values, cell_values[i])] :
        i \in {k \in DOMAIN cell_values :
                   \A j \in DOMAIN cell_values :
                       CountOf(cell_values, cell_values[j])
                           <= CountOf(cell_values, cell_values[k])}}

\* lines 203-215 for a given most common value: the cell written, and what
\* the mismatch and removed-entries counters grow by
CellOutcome(top, cell_values, threshold) ==
    IF top.count >= threshold
    THEN [cell |-> top.value, mismatches |-> 0,
          removed |-> RemovedEntries(cell_values, TokenSet(top.value))]
    ELSE [cell |-> "", mismatches |-> 1, removed |-> RemovedEntries(cell_values, {})]

ValuesReaching(cell_values, threshold) ==
    {cell_values[i] : i \in {k \in DOMAIN cell_values :
                                CountOf(cell_values, cell_values[k]) >= threshold}}

MajorityThreshold ==
    /\ agreement_threshold # 0 =>
           /\ num_researchers >= 3
           /\ 2 * agreement_threshold > num_researchers
    /\ AtCell => Cardinality(ValuesReaching(CurrentCellValues, agreement_threshold)) <= 1

OrderFreeStep ==
    AtCell /\ Len(CurrentCellValues) <= MaxVoters =>
        LET header == final_ordered_headers[header_i]
        IN  /\ header \in DOMAIN new_row'
            /\ \A votes \in Reorderings(CurrentCellValues) :
                   \A top \in TiedTops(votes) :
                       CellOutcome(top, votes, agreement_threshold) =
                           [cell       |-> new_row'[header],
                            mismatches |-> mismatches_count' - mismatches_count,
                            removed    |-> removed_entries_count' - removed_entries_count]

\* C27: the threshold is more than half of the K >= 3 raters, so at most one
\* value of a cell reaches it, and the consensus cell, the mismatch count and
\* the removed-entries count are the same for every order of the rater files
\* and for every way Counter.most_common breaks a tie
C27_OrderAndTiesDoNotMatter == [](MajorityThreshold) /\ [][OrderFreeStep]_vars

\* four raters voting "", "A,A", "", "A,A": a tie of two values, neither of
\* which reaches the threshold of 3, ends in an empty cell and one mismatch
C27_Witness ==
    /\ dir_entries = <<DataFile(SingleHeader, <<>>),
                       DataFile(SingleHeader, <<(<<"I1", "S1", "A,A">>)>>),
                       DataFile(SingleHeader, <<(<<"I1", "S1", " , ">>)>>),
                       DataFile(SingleHeader, <<(<<"I1", "S1", "A,A">>)>>)>>
    /\ pc = "done"
    /\ agreement_threshold = 3
    /\ output_file[1].rows = <<(<<"I1", "S1", "">>)>>
    /\ mismatches_count = 1
    /\ removed_entries_count = 2

\* the file has the key columns, so that its rows are read
HasKeyColumns(file) ==
    /\ file.kind = "data"
    /\ \A c \in SeqToSet(KeyCols(is_meta_human)) : c \in SeqToSet(CleanHeader(file.header))

HasLongRow(file) == \E r \in DOMAIN file.rows : Len(file.rows[r]) > Len(file.header)

\* the key of a row as long as the header
KeyOfRow(file, r) ==
    [k \in DOMAIN KeyCols(is_meta_human) |-> ValueIn(file, r, KeyCols(is_meta_human)[k])]

\* C29: of a file with the key columns, a row with fewer cells than the header
\* is skipped and the other rows are kept; one row with more cells than the
\* header makes the file contribute no row and no header, the rows parsed
\* before it included
C29_ShortRowSkippedLongRowVoidsFile ==
    /\ \A i \in DOMAIN all_data :
           HasKeyColumns(FileLoaded(i)) =>
               IF HasLongRow(FileLoaded(i))
               THEN all_data[i] = EmptyMap
               ELSE DOMAIN all_data[i] =
                        {KeyOfRow(FileLoaded(i), r) : r \in FullRows(FileLoaded(i))}
    /\ all_headers_set =
           UNION {SeqToSet(CleanHeader(FileLoaded(i).header)) :
                     i \in {k \in DOMAIN all_data :
                                HasKeyColumns(FileLoaded(k)) /\ ~HasLongRow(FileLoaded(k))}}

\* a file with a short row, a file whose last row is too long and a file
\* with full rows have been aggregated: the first yields its full row only,
\* the second no row and not its column R3
C29_Witness ==
    /\ dir_entries = <<ShortRowFile, LongLastRowFile, FullRowsFile>>
    /\ pc = "done"
    /\ DOMAIN all_data[1] = {<<"I2", "S1">>}
    /\ all_data[2] = EmptyMap
    /\ all_headers_set = {"Interview ID", "Scenario", "R1", "R2"}
    /\ Len(output_file[1].rows) = 2

\* ------------------------------------------- normalize_cell_value harness
CellAlphabet == {"A", "B", ",", " "}

\* the specification's example with a duplicate token, and its tokens in
\* another order
CellExamples == {" B33, A12 ,A12", "A12,B33 , A12 "}

InitCell ==
    /\ AggIdle
    /\ TextIdle
    /\ FuzzyIdle
    /\ cell_pc = "in"
    /\ cell_value \in StringsUpTo(CellAlphabet, MaxCellLen) \cup CellExamples
    /\ cell_once = ""
    /\ cell_twice = ""
    /\ VerifyIdle
    /\ ToolsIdle

NormalizeOnce ==
    /\ cell_pc = "in"
    /\ cell_once' = normalize_cell_value(cell_value)
    /\ cell_pc' = "once"
    /\ UNCHANGED <<cell_value, cell_twice, aggVars, verifyVars, toolVars, textVars, fuzzyVars>>

NormalizeTwice ==
    /\ cell_pc = "once"
    /\ cell_twice' = normalize_cell_value(cell_once)
    /\ cell_pc' = "twice"
    /\ UNCHANGED <<cell_value, cell_once, aggVars, verifyVars, toolVars, textVars, fuzzyVars>>

NextCell == NormalizeOnce \/ NormalizeTwice

SpecCell == InitCell /\ [][NextCell]_vars

\* C6: normalizing a normalized tag cell yields the same string
C6_NormalizeCellIdempotent ==
    cell_pc = "twice" => cell_twice = cell_once

\* a cell that normalization changes (reordered, trimmed) has been normalized twice
C6_Witness ==
    /\ cell_pc = "twice"
    /\ cell_value = "B, A"
    /\ cell_once = "A,B"
    /\ cell_twice = "A,B"

\* the cell as the list of the pieces between its commas
PiecesOf(s) == Split(s, ",")

\* how often token t is a trimmed piece of cell s
TokenCount(s, t) ==
    Cardinality({i \in DOMAIN PiecesOf(s) : Strip(PiecesOf(s)[i]) = t})

\* the tokens of cell s: its trimmed pieces that are not empty
TokensIn(s) == {Strip(PiecesOf(s)[i]) : i \in DOMAIN PiecesOf(s)} \ {""}

\* two cells with the same multiset of tokens
SameTokens(s1, s2) ==
    /\ TokensIn(s1) = TokensIn(s2)
    /\ \A t \in TokensIn(s1) : TokenCount(s1, t) = TokenCount(s2, t)

\* C20: the normalized cell is the comma-join of the cell's trimmed non-empty
\* tokens in ascending order, every token as often as the cell has it
\* (" B33, A12 ,A12" gives "A12,A12,B33"), and every cell with the same
\* multiset of tokens normalizes to the same string
C20_SortedTokensWithDuplicates ==
    cell_pc \in {"once", "twice"} =>
        /\ cell_once = "" <=> TokensIn(cell_value) = {}
        /\ cell_once # "" =>
               LET out == PiecesOf(cell_once)
               IN  /\ \A i \in DOMAIN out : out[i] # "" /\ Strip(out[i]) = out[i]
                   /\ \A i, j \in DOMAIN out : i < j => ~StrLess(out[j], out[i])
                   /\ SameTokens(cell_once, cell_value)
        /\ cell_value = " B33, A12 ,A12" => cell_once = "A12,A12,B33"
        /\ \A s \in StringsUpTo(CellAlphabet, MaxCellLen - 1) \cup CellExamples :
               SameTokens(s, cell_value) => normalize_cell_value(s) = cell_once

\* the example cell with a duplicate token has been normalized
C20_Witness ==
    /\ cell_pc = "once"
    /\ cell_value = " B33, A12 ,A12"
    /\ cell_once = "A12,A12,B33"

\* ------------------------------------------------- normalize_text harness
\* all strings put together from at most n of the given pieces
RECURSIVE PiecedStrings(_, _)
PiecedStrings(pieces, n) ==
    IF n = 0 THEN {""}
    ELSE LET shorter == PiecedStrings(pieces, n - 1)
         IN  shorter \cup {s \o c : s \in shorter, c \in pieces}

TextPieces == {"&", "amp;", "lt;", "\"", LDQUO, RDQUO, " ", "x"}

\* texts that are a quotation mark inside a pair of other quotation marks,
\* and texts with several layers
TextExamples ==
    { "\"'\"", "\" ' \"", "\"\"'\"\"", "'\"'", "\"''\"", "\"'x'\"",
      LAQUO \o "'x'" \o RAQUO, LSQUO \o "x" \o RSQUO }

InitText ==
    /\ AggIdle
    /\ CellIdle
    /\ FuzzyIdle
    /\ text_pc = "in"
    /\ text_cell \in PiecedStrings(TextPieces, MaxTextPieces) \cup TextExamples
    /\ text_once = ""
    /\ text_twice = ""
    /\ VerifyIdle
    /\ ToolsIdle

NormalizeTextOnce ==
    /\ text_pc = "in"
    /\ text_once' = normalize_text(text_cell)
    /\ text_pc' = "once"
    /\ UNCHANGED <<text_cell, text_twice, aggVars, verifyVars, toolVars, cellVars, fuzzyVars>>

NormalizeTextTwice ==
    /\ text_pc = "once"
    /\ text_twice' = normalize_text(text_once)
    /\ text_pc' = "twice"
    /\ UNCHANGED <<text_cell, text_once, aggVars, verifyVars, toolVars, cellVars, fuzzyVars>>

NextText == NormalizeTextOnce \/ NormalizeTextTwice

SpecText == InitText /\ [][NextText]_vars

\* C7: normalizing a normalized text yields the same string
C7_NormalizeTextIdempotent ==
    text_pc = "twice" => text_twice = text_once

\* the text the quote stripping of lines 102-106 starts from
BeforeStripping(cell) == CleanWhitespace(Unescape(cell))

\* the string has at least 2 characters and its ends form one of the pairs
WrappedInPair(s) ==
    /\ Len(s) >= 2
    /\ \E i \in DOMAIN QuotePairs :
           StartsWith(s, QuotePairs[i][1]) /\ EndsWith(s, QuotePairs[i][2])

\* C23: normalize_text removes a layer of quotation marks only from a string
\* of at least 2 characters whose first and last characters form one of the
\* five pairs, so no removal is applied to a string of fewer than 2
\* characters; the removals end with the string the function goes on with
C23_RemovalsNeedTwoChars ==
    text_pc # "in" /\ text_cell # "" =>
        LET removals == Removals(BeforeStripping(text_cell))
        IN  /\ \A i \in DOMAIN removals : WrappedInPair(removals[i])
            /\ \A i \in 1..(Len(removals) - 1) :
                   removals[i + 1] = Strip(Inner(removals[i]))
            /\ text_once =
                   StraightQuotes(IF removals = <<>> THEN BeforeStripping(text_cell)
                                  ELSE Strip(Inner(removals[Len(removals)])))

\* ---------------------------------------------------- calculate_fuzzy_score
QuotePieces == {"a", "b", "...", "abcde"}

TranscriptPieces == {"a", "b", "abxde"}

\* single calls: fragments whose scores have a mean that is no integer,
\* quotes of which the ellipsis marker leaves no fragment or one, and
\* fragments with near matches and further occurrences around them
FuzzyExamples ==
    { <<"a...abcdef", "a abxdef">>,
      <<"abcdef...abcdef...a", "abxdef abxdef a">>,
      <<"abcdef...abcdef...a", "abxdef">>,
      <<"...", "...">>,
      <<"... ...", "wait...">>,
      <<"...", "">>,
      <<"...a", "a...">>,
      <<"ab ...", "xab">>,
      <<"abcde...abcde", "abxde abcde abxde abcde">>,
      <<"abcde...b", "abxde b abcde b">>,
      <<"ab...ab...a", "a ab ab ab a">> }

InitFuzzy ==
    /\ AggIdle
    /\ CellIdle
    /\ TextIdle
    /\ fz_pc = "start"
    /\ \/ /\ quote \in PiecedStrings(QuotePieces, MaxQuotePieces)
          /\ transcript \in PiecedStrings(TranscriptPieces, MaxTranscriptPieces)
       \/ \E example \in FuzzyExamples :
              /\ quote = example[1]
              /\ transcript = example[2]
    /\ parts = <<>>
    /\ part_i = 0
    /\ part_scores = <<>>
    /\ search_start_index = 0
    /\ match_windows = <<>>
    /\ fz_result = -1
    /\ VerifyIdle
    /\ ToolsIdle

\* lines 63-65
NoEllipsis ==
    /\ fz_pc = "start"
    /\ ~Contains(quote, "...")
    /\ fz_result' = PartialRatio(quote, transcript)
    /\ fz_pc' = "done"
    /\ UNCHANGED <<quote, transcript, parts, part_i, part_scores, search_start_index,
                   match_windows, aggVars, verifyVars, toolVars, cellVars, textVars>>

\* lines 68-71
NoParts ==
    /\ fz_pc = "start"
    /\ Contains(quote, "...")
    /\ QuoteParts(quote) = <<>>
    /\ parts' = <<>>
    /\ fz_result' = 0
    /\ fz_pc' = "done"
    /\ UNCHANGED <<quote, transcript, part_i, part_scores, search_start_index,
                   match_windows, aggVars, verifyVars, toolVars, cellVars, textVars>>

\* lines 68-76
OnePart ==
    /\ fz_pc = "start"
    /\ Contains(quote, "...")
    /\ Len(QuoteParts(quote)) = 1
    /\ parts' = QuoteParts(quote)
    /\ fz_result' = PartialRatio(QuoteParts(quote)[1], transcript)
    /\ fz_pc' = "done"
    /\ UNCHANGED <<quote, transcript, part_i, part_scores, search_start_index,
                   match_windows, aggVars, verifyVars, toolVars, cellVars, textVars>>

\* lines 68-79
BeginSequential ==
    /\ fz_pc = "start"
    /\ Contains(quote, "...")
    /\ Len(QuoteParts(quote)) >= 2
    /\ parts' = QuoteParts(quote)
    /\ part_scores' = <<>>
    /\ search_start_index' = 0
    /\ part_i' = 1
    /\ fz_pc' = "parts"
    /\ UNCHANGED <<quote, transcript, match_windows, fz_result, aggVars, verifyVars, toolVars,
                   cellVars, textVars>>

\* lines 82-83 for the part the loop is at
CurrentMatch ==
    find_best_substring_match(parts[part_i], SearchArea(transcript, search_start_index))

\* the mutant of PartFails that averages the failing score with the scores of
\* the parts before it
PartFailsAveraged ==
    /\ fz_pc = "parts"
    /\ part_i <= Len(parts)
    /\ CurrentMatch.score < SIMILARITY_THRESHOLD
    /\ fz_result' = (Sum(part_scores) + CurrentMatch.score) \div (Len(part_scores) + 1)
    /\ fz_pc' = "done"
    /\ UNCHANGED <<quote, transcript, parts, part_i, part_scores, search_start_index,
                   match_windows, aggVars, verifyVars, toolVars, cellVars, textVars>>

\* lines 81-88
PartFails ==
    /\ fz_pc = "parts"
    /\ part_i <= Len(parts)
    /\ CurrentMatch.score < SIMILARITY_THRESHOLD
    /\ fz_result' = CurrentMatch.score
    /\ fz_pc' = "done"
    /\ UNCHANGED <<quote, transcript, parts, part_i, part_scores, search_start_index,
                   match_windows, aggVars, verifyVars, toolVars, cellVars, textVars>>

\* the mutant of PartPasses that sets the cursor to the end of the window
\* within the searched text
PartPassesRelativeCursor ==
    /\ fz_pc = "parts"
    /\ part_i <= Len(parts)
    /\ CurrentMatch.score >= SIMILARITY_THRESHOLD
    /\ part_scores' = Append(part_scores, CurrentMatch.score)
    /\ match_windows' = Append(match_windows,
                               [start |-> search_start_index + CurrentMatch.start,
                                end   |-> search_start_index + CurrentMatch.end])
    /\ search_start_index' = CurrentMatch.end
    /\ part_i' = part_i + 1
    /\ UNCHANGED <<fz_pc, quote, transcript, parts, fz_result, aggVars, verifyVars, toolVars,
                   cellVars, textVars>>

\* lines 81-92
PartPasses ==
    /\ fz_pc = "parts"
    /\ part_i <= Len(parts)
    /\ CurrentMatch.score >= SIMILARITY_THRESHOLD
    /\ part_scores' = Append(part_scores, CurrentMatch.score)
    /\ match_windows' = Append(match_windows,
                               [start |-> search_start_index + CurrentMatch.start,
                                end   |-> search_start_index + CurrentMatch.end])
    /\ search_start_index' = search_start_index + CurrentMatch.end
    /\ part_i' = part_i + 1
    /\ UNCHANGED <<fz_pc, quote, transcript, parts, fz_result, aggVars, verifyVars, toolVars,
                   cellVars, textVars>>

\* the mutant of AllPartsPass that rounds the mean up
AllPartsPassRoundedUp ==
    /\ fz_pc = "parts"
    /\ part_i > Len(parts)
    /\ fz_result' = CeilDiv(Sum(part_scores), Len(part_scores))
    /\ fz_pc' = "done"
    /\ UNCHANGED <<quote, transcript, parts, part_i, part_scores, search_start_index,
                   match_windows, aggVars, verifyVars, toolVars, cellVars, textVars>>

\* line 95
AllPartsPass ==
    /\ fz_pc = "parts"
    /\ part_i > Len(parts)
    /\ fz_result' = Sum(part_scores) \div Len(part_scores)
    /\ fz_pc' = "done"
    /\ UNCHANGED <<quote, transcript, parts, part_i, part_scores, search_start_index,
                   match_windows, aggVars, verifyVars, toolVars, cellVars, textVars>>

NextFuzzy ==
    \/ NoEllipsis
    \/ NoParts
    \/ OnePart
    \/ BeginSequential
    \/ PartFails
    \/ PartPasses
    \/ AllPartsPass

SpecFuzzy == InitFuzzy /\ [][NextFuzzy]_vars

\* the steps above return what the function as a whole returns
StepsAgreeWithFunction ==
    fz_pc = "done" => fz_result = calculate_fuzzy_score(quote, transcript)

\* the start indexes of the windows of text, of the part's length, that score
\* at least the threshold for the part
PassingWindows(part, text) ==
    {i \in 0..(Len(text) - Len(part)) :
        Ratio(part, SubSeq(text, i + 1, i + Len(part))) >= SIMILARITY_THRESHOLD}

\* C3: in sequential matching every part is matched in the text that follows
\* the end of the window matched for the part before it; hence a two-part
\* quote "A ... B" scores below the threshold whenever A and B each have a
\* window of the whole transcript that reaches the threshold but every such
\* window for B begins before the end of the window matched for A (in
\* particular when it lies before that window)
C3_LaterPartsSearchedAfterMatch ==
    /\ \A i \in DOMAIN match_windows :
           /\ match_windows[i].start >= (IF i = 1 THEN 0 ELSE match_windows[i - 1].end)
           /\ match_windows[i].end = match_windows[i].start + Len(parts[i])
           /\ match_windows[i].start \in PassingWindows(parts[i], transcript)
    /\ fz_pc = "done" /\ Len(parts) = 2 /\ match_windows # <<>>
       /\ PassingWindows(parts[2], transcript) # {}
       /\ (\A w \in PassingWindows(parts[2], transcript) : w < match_windows[1].end)
           => fz_result < SIMILARITY_THRESHOLD

\* "b ... a" against "ab": both parts occur, "a" only before the match of "b"
C3_Witness ==
    /\ fz_pc = "done"
    /\ quote = "b...a"
    /\ transcript = "ab"
    /\ match_windows = <<[start |-> 1, end |-> 2]>>
    /\ PassingWindows("a", transcript) = {0}
    /\ fz_result < SIMILARITY_THRESHOLD

\* the best score of a window of text of the part's length (0 when there is
\* no window)
BestWindowScore(part, text) ==
    IF part = "" \/ Len(part) > Len(text) THEN 0
    ELSE LET scores == {Ratio(part, SubSeq(text, i + 1, i + Len(part))) :
                           i \in 0..(Len(text) - Len(part))}
         IN  CHOOSE m \in scores : \A x \in scores : x <= m

\* sequential matching has ended at a part that failed
FailedAtPart ==
    /\ fz_pc = "done"
    /\ Len(parts) >= 2
    /\ Len(part_scores) < Len(parts)

\* C13: when sequential matching ends at a part whose best window in the rest
\* of the transcript scores below the threshold, the result is that part's
\* best score (0 when the part is longer than the rest of the transcript),
\* the parts before it all passed, and no later part has been matched
C13_FailingPartGivesScore ==
    FailedAtPart =>
        LET k    == Len(part_scores) + 1
            rest == From(transcript, search_start_index)
        IN  /\ part_i = k
            /\ Len(match_windows) = k - 1
            /\ fz_result = BestWindowScore(parts[k], rest)
            /\ fz_result < SIMILARITY_THRESHOLD
            /\ Len(parts[k]) > Len(rest) => fz_result = 0
            /\ \A j \in DOMAIN part_scores : part_scores[j] >= SIMILARITY_THRESHOLD

\* the first part passes with 83, the second fails with 0 against "", the
\* third is never matched
C13_Witness ==
    /\ FailedAtPart
    /\ quote = "abcdef...abcdef...a"
    /\ transcript = "abxdef"
    /\ part_scores = <<83>>
    /\ part_i = 2
    /\ fz_result = 0

\* sequential matching has ended with every part passed
AllPassed ==
    /\ fz_pc = "done"
    /\ Len(parts) >= 2
    /\ Len(part_scores) = Len(parts)

\* C14: when every part of a quote of two or more parts passes in order, the
\* result n is the mean of the parts' scores rounded down, n * parts <= sum
\* < (n + 1) * parts, and lies in 0..100
C14_MeanRoundedDown ==
    AllPassed =>
        /\ fz_result \in 0..100
        /\ fz_result * Len(parts) <= Sum(part_scores)
        /\ Sum(part_scores) < (fz_result + 1) * Len(parts)
        /\ \A j \in DOMAIN parts :
               /\ part_scores[j] >= SIMILARITY_THRESHOLD
               /\ part_scores[j] =
                      Ratio(parts[j], SubSeq(transcript, match_windows[j].start + 1,
                                             match_windows[j].end))

\* scores 83, 83 and 100: the mean 88.67 is returned as 88
C14_Witness ==
    /\ AllPassed
    /\ quote = "abcdef...abcdef...a"
    /\ transcript = "abxdef abxdef a"
    /\ part_scores = <<83, 83, 100>>
    /\ fz_result = 88

\* C15: a quote with the ellipsis marker that leaves no part or one part is
\* scored by the partial ratio against the whole transcript: of the part when
\* there is one, of the quote when there is none
C15_FewPartsUsePartialRatio ==
    fz_pc = "done" /\ Contains(quote, "...") /\ Len(QuoteParts(quote)) <= 1 =>
        fz_result = PartialRatio(IF QuoteParts(quote) = <<>> THEN quote
                                 ELSE QuoteParts(quote)[1],
                                 transcript)

\* the start indexes of the windows of text, of the query's length, that
\* score m for the query
WindowsScoring(query, text, m) ==
    {i \in 0..(Len(text) - Len(query)) :
        Ratio(query, SubSeq(text, i + 1, i + Len(query))) = m}

\* C22: find_best_substring_match(query, text) returns the greatest ratio over
\* the windows of text of the query's length with the start and end index of
\* the earliest window that attains it (end - start = len(query)), and
\* (0, -1, -1) when the query is empty, the text is empty or the query is
\* longer than the text
C22_BestWindowEarliest ==
    fz_pc = "parts" /\ part_i <= Len(parts) =>
        LET query == parts[part_i]
            text  == SearchArea(transcript, search_start_index)
            found == find_best_substring_match(query, text)
        IN  IF query = "" \/ text = "" \/ Len(query) > Len(text)
            THEN found = [score |-> 0, start |-> -1, end |-> -1]
            ELSE /\ found.score = BestWindowScore(query, text)
                 /\ found.start \in WindowsScoring(query, text, found.score)
                 /\ \A i \in WindowsScoring(query, text, found.score) : found.start <= i
                 /\ found.end - found.start = Len(query)

\* what the calls return instead: the claimed triple when some window scores
\* above 0, and (0, -1, len(query) - 1) when every window scores 0
BestWindowEarliestAboveZero ==
    fz_pc = "parts" /\ part_i <= Len(parts) =>
        LET query == parts[part_i]
            text  == SearchArea(transcript, search_start_index)
            found == find_best_substring_match(query, text)
        IN  IF query = "" \/ text = "" \/ Len(query) > Len(text)
            THEN found = [score |-> 0, start |-> -1, end |-> -1]
            ELSE /\ found.score = BestWindowScore(query, text)
                 /\ found.end - found.start = Len(query)
                 /\ IF found.score = 0
                    THEN found.start = -1
                    ELSE /\ found.start \in WindowsScoring(query, text, found.score)
                         /\ \A i \in WindowsScoring(query, text, found.score) :
                                found.start <= i

\* every part occurs word for word in text, in order and without overlap, at
\* or after start_index
RECURSIVE VerbatimInOrder(_, _, _)
VerbatimInOrder(quote_parts, text, start_index) ==
    IF quote_parts = <<>> THEN TRUE
    ELSE \E p \in start_index..(Len(text) - Len(Head(quote_parts))) :
            /\ SubSeq(text, p + 1, p + Len(Head(quote_parts))) = Head(quote_parts)
            /\ VerbatimInOrder(Tail(quote_parts), text, p + Len(Head(quote_parts)))

\* C28: a quote of two or more fragments that occur word for word in the
\* transcript, in order and without overlap, scores 100 and so is not below the
\* threshold, whatever other occurrences or near matches of the fragments the
\* transcript holds
C28_VerbatimFragmentsScore100 ==
    (/\ fz_pc = "done"
     /\ Contains(quote, "...")
     /\ Len(QuoteParts(quote)) >= 2
     /\ VerbatimInOrder(QuoteParts(quote), transcript, 0))
        => fz_result = 100 /\ ~(fz_result < SIMILARITY_THRESHOLD)

\* both fragments have a near match (80) before their word-for-word occurrence
C28_Witness ==
    /\ fz_pc = "done"
    /\ quote = "abcde...abcde"
    /\ transcript = "abxde abcde abxde abcde"
    /\ match_windows = <<[start |-> 6, end |-> 11], [start |-> 18, end |-> 23]>>
    /\ fz_result = 100

\* C30: the search cursor starts at 0, never decreases and never exceeds the
\* length of the transcript; after every passing fragment it is the end, in the
\* whole transcript, of the window matched for that fragment, so that the
\* windows of successive fragments do not overlap and lie in fragment order
CursorFollowsWindows ==
    /\ search_start_index \in 0..Len(transcript)
    /\ search_start_index =
           (IF match_windows = <<>> THEN 0 ELSE match_windows[Len(match_windows)].end)
    /\ Len(match_windows) = Len(part_scores)
    /\ \A i \in DOMAIN match_windows :
           /\ match_windows[i].start >= 0
           /\ match_windows[i].end = match_windows[i].start + Len(parts[i])
           /\ match_windows[i].end <= Len(transcript)
           /\ Ratio(parts[i], SubSeq(transcript, match_windows[i].start + 1,
                                     match_windows[i].end)) = part_scores[i]
    /\ \A i, j \in DOMAIN match_windows :
           i < j => match_windows[i].end <= match_windows[j].start

C30_CursorMonotoneWindowsDisjoint ==
    /\ [](CursorFollowsWindows)
    /\ [][search_start_index' >= search_start_index]_vars

\* "a ... b" against "bab": the windows [1, 2) and [2, 3), the cursor at the end
C30_Witness ==
    /\ fz_pc = "done"
    /\ quote = "a...b"
    /\ transcript = "bab"
    /\ match_windows = <<[start |-> 1, end |-> 2], [start |-> 2, end |-> 3]>>
    /\ search_start_index = Len(transcript)
    /\ fz_result = 100

\* ------------------------------------------------------- verify_human.py
Modes == {"single", "meta"}

\* the analysis files of the runs: the header of analysis_<mode>.csv and the
\* cells of its requirement columns. Every location has one column letter
\* and one digit, for which sort_cell_location orders as the strings do
AnalysisColumns(m) ==
    IF m = "single" THEN <<"Interview ID", "Scenario", "R.1", " R.2", "HAL_1">>
    ELSE <<"Interview ID", "Scenario", "Iteration", "R.1">>

AnalysisCells(m, req_id) ==
    IF m = "single" /\ req_id = "R.1" THEN <<"E2,E3", "E2">>
    ELSE IF m = "single" THEN <<"", "F2">>
    ELSE <<"E2">>

\* line 152: [col for col in self.analysis_df.columns if col.strip().startswith('R.')]
RECURSIVE RequirementColumns(_)
RequirementColumns(columns) ==
    IF columns = <<>> THEN <<>>
    ELSE (IF StartsWith(Strip(Head(columns)), "R.") THEN <<Head(columns)>> ELSE <<>>)
         \o RequirementColumns(Tail(columns))

\* lines 304-307: _get_all_locations_for_req
RECURSIVE LocationsIn(_)
LocationsIn(cells) ==
    IF cells = <<>> THEN {}
    ELSE (IF Head(cells) = "" THEN {} ELSE SeqToSet(Split(Head(cells), ",")))
         \cup LocationsIn(Tail(cells))

\* line 226: sorted(locations, key=self.sort_cell_location)
RECURSIVE SortedLocations(_)
SortedLocations(locations) ==
    IF locations = {} THEN <<>>
    ELSE LET first == CHOOSE x \in locations :
                          \A y \in locations : y = x \/ StrLess(x, y)
         IN  <<first>> \o SortedLocations(locations \ {first})

\* dict.get(key, {}) on the nested dicts of the state
GetOr(d, k) == IF k \in DOMAIN d THEN d[k] ELSE EmptyMap

\* the decision a dict of decisions holds for a location: '' when it has none
DecisionIn(d, loc) == IF loc \in DOMAIN d THEN d[loc] ELSE ""

\* lines 213-252, display_requirement: the locations shown for the current
\* requirement, a StringVar for each that holds the decision of mode_state
\* if there is one, and the first match selected
Display(shown, ms, columns, index) ==
    IF columns = <<>>
    THEN [current_locations |-> <<>>, match_widgets |-> EmptyMap,
          selected_match_index |-> -1]
    ELSE LET req_id        == columns[index + 1]
             all_locations == SortedLocations(LocationsIn(AnalysisCells(shown, req_id)))
         IN  [current_locations |-> all_locations,
              match_widgets |->
                  [loc \in SeqToSet(all_locations) |-> DecisionIn(GetOr(ms, req_id), loc)],
              selected_match_index |-> IF all_locations = <<>> THEN -1 ELSE 0]

\* lines 278-286 and 340-342, save_and_write with the StringVars as given:
\* mode_state, state and the state file after the call. mode_state is the
\* very dict state[mode] (line 338), so writing it back on line 341 changes
\* nothing else
save_and_write(widgets) ==
    IF req_columns = <<>> \/ mode = "none"
    THEN [mode_state |-> mode_state, state |-> state, state_file |-> state_file]
    ELSE LET req_id  == req_columns[current_req_index + 1]
             old     == GetOr(mode_state, req_id)
             new_req == [loc \in (DOMAIN old) \cup (DOMAIN widgets) |->
                            IF loc \in DOMAIN widgets THEN widgets[loc] ELSE old[loc]]
             new_ms  == Put(mode_state, req_id, new_req)
             new_st  == Put(state, mode, new_ms)
         IN  [mode_state |-> new_ms, state |-> new_st, state_file |-> <<new_st>>]

\* lines 330-338, load_state, up to the choice of mode_state
load_state(file) ==
    LET loaded == IF file = <<>> THEN EmptyMap ELSE file[1]
    IN  [m \in (DOMAIN loaded) \cup Modes |-> GetOr(loaded, m)]

\* the state files the runs start with: none, and one that has decisions of
\* the single mode only
StateFiles ==
    { <<>>,
      <<Put(EmptyMap, "single", Put(EmptyMap, "R.1", Put(EmptyMap, "E2", "No")))>> }

InitReview ==
    /\ AggIdle
    /\ CellIdle
    /\ TextIdle
    /\ FuzzyIdle
    /\ VerifyIdle
    /\ LlmIdle
    /\ files_present \in SUBSET Modes
    /\ state_file \in StateFiles
    /\ mode = "none"
    /\ screen = "welcome"
    /\ state = [m \in Modes |-> EmptyMap]
    /\ mode_state = EmptyMap
    /\ req_columns = <<>>
    /\ current_req_index = 0
    /\ match_widgets = EmptyMap
    /\ current_locations = <<>>
    /\ selected_match_index = -1
    /\ decisions = EmptyMap

reviewFrame == <<aggVars, cellVars, textVars, fuzzyVars, verifyVars, llmVars>>

\* the buttons that call setup_mode(m): both on the welcome screen, on the
\* main window the one of the mode it was built for is disabled (lines 186-187)
CanChoose(m) == screen = "welcome" \/ (screen \in Modes /\ screen # m)

\* lines 139-157, setup_mode(m) with the files of m in place
SetupMode(m) ==
    /\ CanChoose(m)
    /\ m \in files_present
    /\ LET saved  == save_and_write(match_widgets)
           loaded == load_state(saved.state_file)
           shown  == Display(m, loaded[m], RequirementColumns(AnalysisColumns(m)), 0)
       IN  /\ state_file' = saved.state_file
           /\ state' = loaded
           /\ mode_state' = loaded[m]
           /\ req_columns' = RequirementColumns(AnalysisColumns(m))
           /\ current_locations' = shown.current_locations
           /\ match_widgets' = shown.match_widgets
           /\ selected_match_index' = shown.selected_match_index
    /\ mode' = m
    /\ screen' = m
    /\ current_req_index' = 0
    /\ UNCHANGED <<files_present, decisions, reviewFrame>>

\* lines 139-145, setup_mode(m) with a file of m missing: the error box, and
\* self.mode = None; the window stays as it is
SetupModeFilesMissing(m) ==
    /\ CanChoose(m)
    /\ m \notin files_present
    /\ LET saved == save_and_write(match_widgets)
       IN  /\ state_file' = saved.state_file
           /\ state' = saved.state
           /\ mode_state' = saved.mode_state
    /\ mode' = "none"
    /\ UNCHANGED <<files_present, screen, req_columns, current_req_index, match_widgets,
                   current_locations, selected_match_index, decisions, reviewFrame>>

\* the main window is shown: its buttons, list and key bindings work
MainWindow == screen \in Modes

\* what the handlers that move to requirement new_index do after their
\* save_and_write
MoveTo(new_index, saved) ==
    LET shown == Display(screen, saved.mode_state, req_columns, new_index)
    IN  /\ current_req_index' = new_index
        /\ current_locations' = shown.current_locations
        /\ match_widgets' = shown.match_widgets
        /\ selected_match_index' = shown.selected_match_index

Stay ==
    UNCHANGED <<current_req_index, current_locations, match_widgets, selected_match_index>>

\* lines 262-267, next_req
next_req ==
    /\ MainWindow
    /\ req_columns # <<>>
    /\ LET saved == save_and_write(match_widgets)
       IN  /\ state_file' = saved.state_file
           /\ state' = saved.state
           /\ mode_state' = saved.mode_state
           /\ IF current_req_index < Len(req_columns) - 1
              THEN MoveTo(current_req_index + 1, saved)
              ELSE Stay
    /\ UNCHANGED <<files_present, mode, screen, req_columns, decisions, reviewFrame>>

\* lines 269-274, prev_req
prev_req ==
    /\ MainWindow
    /\ req_columns # <<>>
    /\ LET saved == save_and_write(match_widgets)
       IN  /\ state_file' = saved.state_file
           /\ state' = saved.state
           /\ mode_state' = saved.mode_state
           /\ IF current_req_index > 0
              THEN MoveTo(current_req_index - 1, saved)
              ELSE Stay
    /\ UNCHANGED <<files_present, mode, screen, req_columns, decisions, reviewFrame>>

\* lines 69-75, on_req_listbox_select on another entry of the list
on_req_listbox_select ==
    /\ MainWindow
    /\ \E new_index \in 0..(Len(req_columns) - 1) :
           /\ new_index # current_req_index
           /\ LET saved == save_and_write(match_widgets)
              IN  /\ state_file' = saved.state_file
                  /\ state' = saved.state
                  /\ mode_state' = saved.mode_state
                  /\ MoveTo(new_index, saved)
    /\ UNCHANGED <<files_present, mode, screen, req_columns, decisions, reviewFrame>>

\* the user sets the decision of a match shown: it is recorded for the mode
\* and requirement on the screen
Decided(loc, decision) ==
    Put(decisions, <<screen, req_columns[current_req_index + 1], loc>>, decision)

\* lines 242-245: a radio button sets the StringVar and calls save_and_write
RadioButton ==
    /\ MainWindow
    /\ \E loc \in DOMAIN match_widgets, decision \in {"Yes", "No"} :
           LET widgets == Put(match_widgets, loc, decision)
               saved   == save_and_write(widgets)
           IN  /\ match_widgets' = widgets
               /\ state_file' = saved.state_file
               /\ state' = saved.state
               /\ mode_state' = saved.mode_state
               /\ decisions' = Decided(loc, decision)
    /\ UNCHANGED <<files_present, mode, screen, req_columns, current_req_index,
                   current_locations, selected_match_index, reviewFrame>>

\* lines 101-108, select_adjacent_match
Adjacent(direction) ==
    LET new_index == IF selected_match_index = -1
                     THEN (IF direction = 1 THEN 0 ELSE Len(current_locations) - 1)
                     ELSE selected_match_index + direction
    IN  IF current_locations # <<>> /\ 0 <= new_index /\ new_index < Len(current_locations)
        THEN new_index ELSE selected_match_index

\* lines 60-67, handle_decision_key: Y or N on the selected match
handle_decision_key ==
    /\ MainWindow
    /\ selected_match_index # -1
    /\ current_locations # <<>>
    /\ \E decision \in {"Yes", "No"} :
           LET loc     == current_locations[selected_match_index + 1]
               widgets == Put(match_widgets, loc, decision)
               saved   == save_and_write(widgets)
           IN  /\ match_widgets' = widgets
               /\ state_file' = saved.state_file
               /\ state' = saved.state
               /\ mode_state' = saved.mode_state
               /\ decisions' = Decided(loc, decision)
    /\ selected_match_index' = Adjacent(1)
    /\ UNCHANGED <<files_present, mode, screen, req_columns, current_req_index,
                   current_locations, reviewFrame>>

\* lines 52-58, handle_arrow_keys: Up and Down
select_adjacent_match ==
    /\ MainWindow
    /\ \E direction \in {-1, 1} :
           /\ Adjacent(direction) # selected_match_index
           /\ selected_match_index' = Adjacent(direction)
    /\ UNCHANGED <<files_present, state_file, mode, screen, state, mode_state,
                   req_columns, current_req_index, match_widgets, current_locations,
                   decisions, reviewFrame>>

NextReview ==
    \/ \E m \in Modes : SetupMode(m)
    \/ \E m \in Modes : SetupModeFilesMissing(m)
    \/ next_req
    \/ prev_req
    \/ on_req_listbox_select
    \/ RadioButton
    \/ handle_decision_key
    \/ select_adjacent_match

SpecReview == InitReview /\ [][NextReview]_vars

\* the decision stored in the state file for a mode, requirement and location
SavedDecision(m, req_id, loc) ==
    IF state_file = <<>> THEN ""
    ELSE DecisionIn(GetOr(GetOr(state_file[1], m), req_id), loc)

\* C25: whatever the user did before, every decision set on a match shown is
\* in the JSON state file, under the mode shown, the requirement and the
\* location, once the save_and_write call that follows it has returned
C25_DecisionsAreSaved ==
    \A k \in DOMAIN decisions : SavedDecision(k[1], k[2], k[3]) = decisions[k]

\* the same while self.mode is set, that is until a switch to a mode whose
\* files are missing has been attempted
DecisionsAreSavedWhileModeSet ==
    mode # "none" => C25_DecisionsAreSaved

\* ------------------------------------------- llm-call_match-requirements.py
\* get_llm_analysis (lines 128-149) inside the batch loop of process_results_file
\* (lines 259-289).  One response of the API is an exception or a content; the
\* updates of the analysis CSV are kept as the list of results applied to it.

retries == 3

\* s.rfind(sep): the 0-based index of the last occurrence, -1 if none
RECURSIVE RFindFrom(_, _, _)
RFindFrom(s, sep, i) ==
    IF i < 0 THEN -1
    ELSE IF SubSeq(s, i + 1, i + Len(sep)) = sep THEN i
    ELSE RFindFrom(s, sep, i - 1)

RFind(s, sep) == RFindFrom(s, sep, Len(s) - Len(sep))

\* the result objects a response can carry
JsonObjects == {"{\"location\":\"E1\"}", "{\"location\":\"E2\"}"}

\* json.loads on the texts drawn below: an array of result objects, or an error
json_loads(text) ==
    IF Len(text) >= 2 /\ Ch(text, 1) = "[" /\ Ch(text, Len(text)) = "]"
    THEN LET inner == SubSeq(text, 2, Len(text) - 1)
             items == Split(inner, ",")
         IN  IF inner = "" THEN [ok |-> TRUE, value |-> <<>>]
             ELSE IF \A i \in 1..Len(items) : items[i] \in JsonObjects
             THEN [ok |-> TRUE, value |-> items]
             ELSE [ok |-> FALSE, value |-> <<>>]
    ELSE [ok |-> FALSE, value |-> <<>>]

\* lines 140-144: the slice from the first '[' to the last ']' is parsed
ParseContent(content) ==
    LET json_start == FindFrom(content, "[", 0)
        json_end == RFind(content, "]") + 1
    IN  IF json_start # -1
        THEN json_loads(SubSeq(content, json_start + 1, json_end))
        ELSE [ok |-> FALSE, value |-> <<>>]

ResponseContents ==
    { "", "]  [", "[{\"location\":",
      "[]", "{\"results\":[]}",
      "[{\"location\":\"E1\"}]",
      "{\"results\":[{\"location\":\"E1\"},{\"location\":\"E2\"}]}",
      "[{\"location\":\"E1\"}] [{\"location\":\"E2\"}]" }

Raised == [raised |-> TRUE, content |-> ""]

Content(c) == [raised |-> FALSE, content |-> c]

Batches(n) == [i \in 1..n |-> i]

InitLlm ==
    /\ AggIdle /\ CellIdle /\ TextIdle /\ FuzzyIdle /\ VerifyIdle /\ ReviewIdle
    /\ deployment_name \in {"", "gpt-4o"}
    /\ batches \in {Batches(n) : n \in 0..MaxBatches}
    /\ llm_pc = "batch"
    /\ batch_i = 1
    /\ attempt = 0
    /\ response = Content("")
    /\ api_calls = <<>>
    /\ analysis_result = <<>>
    /\ analysis_csv = <<>>
    /\ csv_writes = 0

llmFrame == <<aggVars, cellVars, textVars, fuzzyVars, verifyVars, reviewVars>>

\* lines 130-133: without a deployment name no call is made
CallWithoutDeployment ==
    /\ llm_pc = "batch"
    /\ batch_i <= Len(batches)
    /\ deployment_name = ""
    /\ api_calls' = <<>>
    /\ analysis_result' = <<>>
    /\ llm_pc' = "returned"
    /\ UNCHANGED <<deployment_name, batches, batch_i, attempt, response, analysis_csv,
                   csv_writes, llmFrame>>

\* line 135: the loop over the attempts begins
BeginAttempts ==
    /\ llm_pc = "batch"
    /\ batch_i <= Len(batches)
    /\ deployment_name # ""
    /\ api_calls' = <<>>
    /\ attempt' = 0
    /\ llm_pc' = "attempt"
    /\ UNCHANGED <<deployment_name, batches, batch_i, response, analysis_result,
                   analysis_csv, csv_writes, llmFrame>>

\* lines 137-139, 145-147: the call (or reading its content) raises
AttemptRaises ==
    /\ llm_pc = "attempt"
    /\ attempt < retries
    /\ response' = Raised
    /\ api_calls' = Append(api_calls, FALSE)
    /\ attempt' = attempt + 1
    /\ UNCHANGED <<deployment_name, batches, llm_pc, batch_i, analysis_result,
                   analysis_csv, csv_writes, llmFrame>>

\* a function that gave up at the first content it cannot parse
AttemptUnparseableGivesUp ==
    /\ llm_pc = "attempt"
    /\ attempt < retries
    /\ \E content \in ResponseContents :
          /\ ~ParseContent(content).ok
          /\ response' = Content(content)
    /\ api_calls' = Append(api_calls, FALSE)
    /\ analysis_result' = <<>>
    /\ llm_pc' = "returned"
    /\ UNCHANGED <<deployment_name, batches, batch_i, attempt, analysis_csv, csv_writes,
                   llmFrame>>

\* lines 140-147: no '[' in the content, or json.loads raises on the slice
AttemptUnparseable ==
    /\ llm_pc = "attempt"
    /\ attempt < retries
    /\ \E content \in ResponseContents :
          /\ ~ParseContent(content).ok
          /\ response' = Content(content)
    /\ api_calls' = Append(api_calls, FALSE)
    /\ attempt' = attempt + 1
    /\ UNCHANGED <<deployment_name, batches, llm_pc, batch_i, analysis_result,
                   analysis_csv, csv_writes, llmFrame>>

\* lines 140-142: the parsed array is returned at once
AttemptReturnsArray ==
    /\ llm_pc = "attempt"
    /\ attempt < retries
    /\ \E content \in ResponseContents :
          /\ ParseContent(content).ok
          /\ response' = Content(content)
          /\ analysis_result' = ParseContent(content).value
    /\ api_calls' = Append(api_calls, TRUE)
    /\ llm_pc' = "returned"
    /\ UNCHANGED <<deployment_name, batches, batch_i, attempt, analysis_csv, csv_writes,
                   llmFrame>>

\* lines 148-149: the loop ran out
RetriesExhausted ==
    /\ llm_pc = "attempt"
    /\ attempt >= retries
    /\ analysis_result' = <<>>
    /\ llm_pc' = "returned"
    /\ UNCHANGED <<deployment_name, batches, batch_i, attempt, response, api_calls,
                   analysis_csv, csv_writes, llmFrame>>

\* lines 265-287: a result that is not empty is applied and the CSV rewritten
UpdateCsv ==
    /\ llm_pc = "returned"
    /\ analysis_result # <<>>
    /\ analysis_csv' = Append(analysis_csv,
                              [batch |-> batches[batch_i], results |-> analysis_result])
    /\ csv_writes' = csv_writes + 1
    /\ batch_i' = batch_i + 1
    /\ llm_pc' = "batch"
    /\ UNCHANGED <<deployment_name, batches, attempt, response, api_calls,
                   analysis_result, llmFrame>>

\* line 265: an empty result, the loop goes on
SkipBatch ==
    /\ llm_pc = "returned"
    /\ analysis_result = <<>>
    /\ batch_i' = batch_i + 1
    /\ llm_pc' = "batch"
    /\ UNCHANGED <<deployment_name, batches, attempt, response, api_calls,
                   analysis_result, analysis_csv, csv_writes, llmFrame>>

\* line 259: no batch is left
EndBatches ==
    /\ llm_pc = "batch"
    /\ batch_i > Len(batches)
    /\ llm_pc' = "finished"
    /\ UNCHANGED <<deployment_name, batches, batch_i, attempt, response, api_calls,
                   analysis_result, analysis_csv, csv_writes, llmFrame>>

NextLlm ==
    \/ CallWithoutDeployment
    \/ BeginAttempts
    \/ AttemptRaises
    \/ AttemptUnparseable
    \/ AttemptReturnsArray
    \/ RetriesExhausted
    \/ UpdateCsv
    \/ SkipBatch
    \/ EndBatches

\* the script runs on: every step that can be taken is taken in the end
SpecLlm == InitLlm /\ [][NextLlm]_vars /\ WF_vars(NextLlm)

\* --------------------------------------------- properties of the LLM calls
FailedCalls(calls, n) == \A i \in 1..n : ~calls[i]

\* what get_llm_analysis has returned, against the calls it made
AnalysisReturned ==
    llm_pc = "returned" =>
        \/ /\ deployment_name = ""
           /\ api_calls = <<>>
           /\ analysis_result = <<>>
        \/ /\ deployment_name # ""
           /\ Len(api_calls) \in 1..retries
           /\ api_calls[Len(api_calls)]
           /\ FailedCalls(api_calls, Len(api_calls) - 1)
           /\ ~response.raised
           /\ ParseContent(response.content).ok
           /\ analysis_result = ParseContent(response.content).value
        \/ /\ deployment_name # ""
           /\ Len(api_calls) = retries
           /\ FailedCalls(api_calls, retries)
           /\ analysis_result = <<>>

\* the step after an empty result
EmptyResultSkipsBatch ==
    (llm_pc = "returned" /\ analysis_result = <<>>) =>
        /\ analysis_csv' = analysis_csv
        /\ csv_writes' = csv_writes
        /\ api_calls' = api_calls
        /\ batch_i' = batch_i + 1
        /\ llm_pc' = "batch"

MissingFile == [kind |-> "missing", data |-> JsonOther]

UnreadableFile == [kind |-> "unreadable", data |-> JsonOther]

TranscriptFile(data) == [kind |-> "json", data |-> data]

CsvHeader == <<"ID", "R1", "Q1", "R2", "Q2">>

\* the rows of the results file: quotes that score 100, 80 and less, blank
\* cells, a cell that normalizes to nothing, quotes with the ellipsis marker,
\* a short row, an empty row and a row without identifier
CsvDataRows ==
    { <<"t1", "x", "abcde", "y", "abxde">>,
      <<"t1", "x", "abc", "y", " ">>,
      <<" t2 ", "x", "abcde", "y", "\"\"">>,
      <<"t1", "x", "\"a">>,
      <<>>,
      <<" ", "x", "abcde", "y", "abcde">>,
      <<"t2", "x", "a...abcde", "y", "">>,
      <<"t1", "x", "a ... abcde", "y", "b...a">> }

TranscriptFiles ==
    { MissingFile, UnreadableFile,
      TranscriptFile(JsonList(<<JsonStr("abxde")>>)),
      TranscriptFile(JsonStr("\"abxde\"")),
      TranscriptFile(JsonList(<<JsonStr("a"), JsonOther,
                                JsonList(<<JsonStr("abxde")>>)>>)) }

InitVerify ==
    /\ AggIdle
    /\ CellIdle
    /\ TextIdle
    /\ FuzzyIdle
    /\ \/ /\ csv_exists = FALSE
          /\ csv_rows = <<>>
       \/ /\ csv_exists = TRUE
          /\ \/ csv_rows = <<>>
             \/ \E data_rows \in SeqsUpTo(CsvDataRows, 0, MaxCsvRows) :
                    csv_rows = <<CsvHeader>> \o data_rows
    /\ transcripts_on_disk \in [{"t1", "t2"} -> TranscriptFiles]
    /\ req_start_letter = "B"
    /\ vq_pc = "start"
    /\ reader_i = 0
    /\ failed_quotes = <<>>
    /\ scored = <<>>
    /\ ToolsIdle

\* lines 133-135
CsvMissing ==
    /\ vq_pc = "start"
    /\ ~csv_exists
    /\ vq_pc' = "done"
    /\ UNCHANGED <<csv_exists, csv_rows, transcripts_on_disk, req_start_letter,
                   reader_i, failed_quotes, scored, aggVars, cellVars, textVars,
                   fuzzyVars, toolVars>>

\* lines 137-140
CsvEmpty ==
    /\ vq_pc = "start"
    /\ csv_exists
    /\ csv_rows = <<>>
    /\ vq_pc' = "done"
    /\ UNCHANGED <<csv_exists, csv_rows, transcripts_on_disk, req_start_letter,
                   reader_i, failed_quotes, scored, aggVars, cellVars, textVars,
                   fuzzyVars, toolVars>>

\* lines 137-145
BeginRows ==
    /\ vq_pc = "start"
    /\ csv_exists
    /\ csv_rows # <<>>
    /\ reader_i' = 2
    /\ vq_pc' = "rows"
    /\ UNCHANGED <<csv_exists, csv_rows, transcripts_on_disk, req_start_letter,
                   failed_quotes, scored, aggVars, cellVars, textVars, fuzzyVars,
                   toolVars>>

\* the row the loop is at; row_idx is reader_i
AtRow == vq_pc = "rows" /\ reader_i <= Len(csv_rows)

CurrentRow == csv_rows[reader_i]

\* lines 146-148
RowHasIdentifier(row) == row # <<>> /\ Strip(row[1]) # ""

\* lines 150-154: the file of a row's transcript
TranscriptOf(row) ==
    IF Strip(row[1]) \in DOMAIN transcripts_on_disk
    THEN transcripts_on_disk[Strip(row[1])]
    ELSE MissingFile

\* line 143
QuoteIndices == compute_quote_indices(req_start_letter, MaxRowLen(csv_rows))

\* lines 146-148
SkipRow ==
    /\ AtRow
    /\ ~RowHasIdentifier(CurrentRow)
    /\ reader_i' = reader_i + 1
    /\ UNCHANGED <<csv_exists, csv_rows, transcripts_on_disk, req_start_letter, vq_pc,
                   failed_quotes, scored, aggVars, cellVars, textVars, fuzzyVars,
                   toolVars>>

\* lines 154-158
TranscriptMissing ==
    /\ AtRow
    /\ RowHasIdentifier(CurrentRow)
    /\ TranscriptOf(CurrentRow).kind = "missing"
    /\ failed_quotes' = failed_quotes \o
           ErrorEntries(Strip(CurrentRow[1]), reader_i, CurrentRow, QuoteIndices,
                        "TRANSCRIPT_MISSING")
    /\ reader_i' = reader_i + 1
    /\ UNCHANGED <<csv_exists, csv_rows, transcripts_on_disk, req_start_letter, vq_pc,
                   scored, aggVars, cellVars, textVars, fuzzyVars,
                   toolVars>>

\* lines 159-169: json.load raises
TranscriptUnreadable ==
    /\ AtRow
    /\ RowHasIdentifier(CurrentRow)
    /\ TranscriptOf(CurrentRow).kind = "unreadable"
    /\ failed_quotes' = failed_quotes \o
           ErrorEntries(Strip(CurrentRow[1]), reader_i, CurrentRow, QuoteIndices,
                        "ERROR_READING_JSON")
    /\ reader_i' = reader_i + 1
    /\ UNCHANGED <<csv_exists, csv_rows, transcripts_on_disk, req_start_letter, vq_pc,
                   scored, aggVars, cellVars, textVars, fuzzyVars,
                   toolVars>>

\* lines 159-163 and 171-184
ScoreRow ==
    /\ AtRow
    /\ RowHasIdentifier(CurrentRow)
    /\ TranscriptOf(CurrentRow).kind = "json"
    /\ LET full_transcript_text  == extract_text_from_json(TranscriptOf(CurrentRow).data)
           normalized_transcript == normalize_text(full_transcript_text)
           cells == ScoredCells(CurrentRow, QuoteIndices, normalized_transcript)
       IN  /\ failed_quotes' = failed_quotes \o
                  ScoreEntries(Strip(CurrentRow[1]), reader_i, cells)
           /\ scored' = scored \o
                  [c \in DOMAIN cells |->
                      [row_idx |-> reader_i, q_idx |-> cells[c].q_idx,
                       score |-> cells[c].score]]
    /\ reader_i' = reader_i + 1
    /\ UNCHANGED <<csv_exists, csv_rows, transcripts_on_disk, req_start_letter, vq_pc,
                   aggVars, cellVars, textVars, fuzzyVars,
                   toolVars>>

\* line 186
EndRows ==
    /\ vq_pc = "rows"
    /\ reader_i > Len(csv_rows)
    /\ vq_pc' = "done"
    /\ UNCHANGED <<csv_exists, csv_rows, transcripts_on_disk, req_start_letter,
                   reader_i, failed_quotes, scored, aggVars, cellVars, textVars,
                   fuzzyVars, toolVars>>

NextVerify ==
    \/ CsvMissing
    \/ CsvEmpty
    \/ BeginRows
    \/ SkipRow
    \/ TranscriptMissing
    \/ TranscriptUnreadable
    \/ ScoreRow
    \/ EndRows

SpecVerify == InitVerify /\ [][NextVerify]_vars

\* ------------------------------------------ properties of the verifier
\* the rows the loop has gone through, by row_idx
ProcessedRows == IF vq_pc = "start" THEN {} ELSE 2..(reader_i - 1)

\* the quote cells of a row, by 0-based column index
QuoteCellsOf(r) ==
    {QuoteIndices[k] : k \in DOMAIN QuoteIndices} \cap 0..(Len(csv_rows[r]) - 1)

CellText(r, q) == csv_rows[r][q + 1]

\* the entries of failed_quotes for one cell, and for one row
EntriesOfCell(r, q) ==
    {j \in DOMAIN failed_quotes :
        failed_quotes[j].row_idx = r /\ failed_quotes[j].column = ColumnName(q)}

EntriesOfRow(r) == {j \in DOMAIN failed_quotes : failed_quotes[j].row_idx = r}

\* the calls of calculate_fuzzy_score for one cell
ScoresOfCell(r, q) ==
    {j \in DOMAIN scored : scored[j].row_idx = r /\ scored[j].q_idx = q}

\* a row whose transcript loads, and the transcript's text
TranscriptLoads(r) ==
    RowHasIdentifier(csv_rows[r]) /\ TranscriptOf(csv_rows[r]).kind = "json"

TranscriptText(r) == extract_text_from_json(TranscriptOf(csv_rows[r]).data)

\* every part has, in order, a window that scores at least 80 in the text
\* after the window matched for the part before it
RECURSIVE PartsFoundInOrder(_, _, _)
PartsFoundInOrder(quote_parts, text, start_index) ==
    IF quote_parts = <<>> THEN TRUE
    ELSE LET found == find_best_substring_match(Head(quote_parts),
                                                From(text, start_index))
         IN  /\ found.score >= 80
             /\ PartsFoundInOrder(Tail(quote_parts), text, start_index + found.end)

TranscriptFails(r) ==
    RowHasIdentifier(csv_rows[r]) /\ TranscriptOf(csv_rows[r]).kind # "json"

\* the quote cells of a row that are not blank
NonBlankQuoteCells(r) == {q \in QuoteCellsOf(r) : Strip(CellText(r, q)) # ""}

\* C17: a processed row whose transcript is missing or unreadable has exactly
\* one failure entry for each quote cell that is not blank and no other
\* entry, each entry carries the error tag of the case and no numeric score,
\* and no score is computed for the row; the run goes on: when it ends every
\* row has been processed and every quote cell of a row whose transcript
\* loads that normalizes to a text has been scored
C17_FailedTranscriptGivesErrorEntries ==
    /\ \A r \in ProcessedRows :
           TranscriptFails(r) =>
               /\ \A q \in NonBlankQuoteCells(r) :
                      /\ Cardinality(EntriesOfCell(r, q)) = 1
                      /\ \A e \in EntriesOfCell(r, q) :
                             failed_quotes[e].quote = CellText(r, q)
               /\ Cardinality(EntriesOfRow(r)) = Cardinality(NonBlankQuoteCells(r))
               /\ \A e \in EntriesOfRow(r) :
                      /\ ~failed_quotes[e].numeric
                      /\ failed_quotes[e].error =
                             IF TranscriptOf(csv_rows[r]).kind = "missing"
                             THEN "TRANSCRIPT_MISSING" ELSE "ERROR_READING_JSON"
               /\ \A j \in DOMAIN scored : scored[j].row_idx # r
    /\ vq_pc = "done" /\ csv_rows # <<>> =>
           /\ ProcessedRows = 2..Len(csv_rows)
           /\ \A r \in ProcessedRows :
                  TranscriptLoads(r) =>
                      \A q \in NonBlankQuoteCells(r) :
                          normalize_text(CellText(r, q)) # "" =>
                              ScoresOfCell(r, q) # {}

\* a row without transcript, with one quote and one cell that normalizes to
\* nothing, gave two error entries, and the row after it was scored
C17_Witness ==
    /\ vq_pc = "done"
    /\ csv_rows = <<CsvHeader, <<" t2 ", "x", "abcde", "y", "\"\"">>,
                    <<"t1", "x", "abcde", "y", "abxde">>>>
    /\ transcripts_on_disk["t2"] = MissingFile
    /\ Len(failed_quotes) = 2
    /\ \A e \in 1..2 : ~failed_quotes[e].numeric /\ failed_quotes[e].row_idx = 2
    /\ failed_quotes[1].column = "C" /\ failed_quotes[2].column = "E"
    /\ Len(scored) = 2
    /\ \A j \in 1..2 : scored[j].row_idx = 3

\* C18: a quote cell without the ellipsis marker whose text is a substring of
\* the transcript's text is scored 100 and has no failure entry
C18_SubstringScores100 ==
    \A r \in ProcessedRows :
        TranscriptLoads(r) =>
            \A q \in NonBlankQuoteCells(r) :
                ~Contains(CellText(r, q), "...")
                    /\ Contains(TranscriptText(r), CellText(r, q)) =>
                        /\ EntriesOfCell(r, q) = {}
                        /\ \A j \in ScoresOfCell(r, q) : scored[j].score = 100

=============================================================================
